---- MODULE Spec2Model ----
(***************************************************************************)
(* QScripts (src/qscripts.cpp): the file monitor, the dependency graph of  *)
(* the active script and the script executor, as a state machine.          *)
(*                                                                         *)
(* Everything runs on the host's main thread.  The call stack of that      *)
(* thread is the variable stack.  A handler runs atomically from one       *)
(* script-engine call to the next; while an engine call (eval_snippet,     *)
(* call_func, compile_file) is in flight the script may let the host       *)
(* dispatch timers, so the timer callback filemon_timer_cb can be entered  *)
(* again on top of the stack.  User commands are only dispatched when the  *)
(* stack is empty.  The filesystem is changed by other processes (the      *)
(* user's editor) at any moment.                                           *)
(***************************************************************************)
EXTENDS Integers, Sequences, FiniteSets, TLC

\* ------------------------------------------------------------------ bounds
\* Modification times of existing files are 1..MaxTime; 0 is "no such file".
MaxTime == 2
\* Deepest main-thread call stack (nested timer callbacks) that is explored.
MaxDepth == 3
\* Most requests of the "execute with undo" action queued in the host.
MaxPending == 1
\* Most manifests parse_deps_for_script can hold open at once: the recursion
\* of a parse that needs more has used up the process's streams or stack.
MaxParseDepth == 3

\* ------------------------------------------------------------- the world
MainScript == "/t/a.py"
Dep1       == "/t/lib1.py"
Dep2       == "/t/lib2.py"
Manifest   == "/t/a.py.deps.qscripts"
Manifest1  == "/t/lib1.py.deps.qscripts"
Manifest2  == "/t/lib2.py.deps.qscripts"
TriggerF   == "/t/go"
\* A trigger file a child manifest names; no such file is ever made.
TriggerC   == "/t/stop"
NoPath     == ""

Files         == {MainScript, Dep1, Dep2, Manifest, Manifest1, Manifest2, TriggerF}
ManifestFiles == {Manifest, Manifest1, Manifest2}
\* The host's RecentScripts registry list.
RecentScripts == <<MainScript>>

\* A manifest line after line.trim2(): a directive or a dependency path.
\* Dependency and trigger paths of the model are absolute and hold no
\* $token$, so expand_file_name leaves them as they are.
LDep(p)        == [k |-> "dep",     v |-> p, keep |-> FALSE]
LReload(c)     == [k |-> "reload",  v |-> c, keep |-> FALSE]
LPkgBase(p)    == [k |-> "pkgbase", v |-> p, keep |-> FALSE]
LTrigger(p, b) == [k |-> "trigger", v |-> p, keep |-> b]

\* A manifest line as read from the file, trimmed: its characters.
LRaw(cs) == [k |-> "raw", v |-> cs, keep |-> FALSE]
\* The trimmed lines the text of a manifest may begin with.
RawLines ==
    << <<"/", "p", "k", "g", "b", "a", "s", "e", " ", "/", "t", "/", "p", "k", "g">>,
       <<"/", "p", "k", "g", "b", "a", "s", "e">>,
       <<"/", "p", "k", "g", "b", "a", "s", "e", "s", "/", "t", "/", "p", "k", "g">>,
       <<"/", "r", "e", "l", "o", "a", "d", " ", "o", "t", "h", "e", "r", "(", ")">>,
       <<"/", "r", "e", "l", "o", "a", "d">>,
       <<"/", "r", "e", "l", "o", "a", "d", "e", "r">>,
       <<"/", "r", "e", "l", "o", "a", "d", " ", " ", "x">>,
       <<"/", "t", "r", "i", "g", "g", "e", "r", "f", "i", "l", "e", " ", "/", "t", "/", "g", "o">>,
       <<"/", "t", "r", "i", "g", "g", "e", "r", "f", "i", "l", "e">>,
       <<"/", "t", "r", "i", "g", "g", "e", "r", "f", "i", "l", "e", "s", "/", "t", "/", "g", "o">>,
       <<"/", "t", "r", "i", "g", "g", "e", "r", "f", "i", "l", "e", " ", "/", "k", "e", "e", "p", " ", "/", "t", "/", "g", "o">>,
       <<"/", "t", "/", "l", "i", "b", "2", ".", "p", "y">>,
       <<"#", " ", "/", "t", "/", "l", "i", "b", "2", ".", "p", "y">>,
       <<";", " ", "/", "r", "e", "l", "o", "a", "d", " ", "x">>,
       <<"/", "/", "/", "t", "/", "l", "i", "b", "2", ".", "p", "y">> >>

ReloadCmd == "reload($basename$)"
\* What a child manifest's directives say.
ReloadCmdC == "other()"
PkgBase    == "/t/pkg"
PkgBaseC   == "/t/other"

\* The texts the user's editor may save into a manifest.
ManifestContents ==
    << <<LDep(Dep1)>>,
       <<LReload(ReloadCmd), LDep(Dep1)>>,
       <<LReload(ReloadCmd), LDep(Dep1), LDep(Dep2)>>,
       <<LTrigger(TriggerF, FALSE), LReload(ReloadCmd), LDep(Dep1)>>,
       <<LTrigger(TriggerF, TRUE), LDep(Dep1)>>,
       \* 6, 7: a top-level manifest and the manifest of its dep
       <<LPkgBase(PkgBase), LReload(ReloadCmd), LDep(Dep1)>>,
       <<LPkgBase(PkgBaseC), LReload(ReloadCmdC), LTrigger(TriggerC, TRUE),
         LDep(Dep2)>>,
       \* 8, 9: a trigger file without /keep, /keep in the dep's manifest
       <<LTrigger(TriggerF, FALSE), LDep(Dep1)>>,
       <<LTrigger(TriggerC, TRUE)>>,
       \* 10: the main script's manifest lists the main script
       <<LDep(MainScript)>>,
       \* 11, 12: the manifests of two deps list each other
       <<LDep(Dep2)>>,
       <<LDep(Dep1)>>,
       \* 13: a dep before and a dep after the /reload line
       <<LDep(Dep1), LReload(ReloadCmd), LDep(Dep2)>>,
       \* 14: a /reload line with no value after one with a value
       <<LReload(ReloadCmd), LDep(Dep1), LReload(""), LDep(Dep2)>> >>
    \* then, for each of RawLines: that line, and below it a dependency
    \o [i \in 1..Len(RawLines) |-> <<LRaw(RawLines[i]), LDep(Dep1)>>]

\* An sval_t of the options dialog, hi * 2^32 + lo with lo in the range of
\* int; int(v) is lo.  An int of the registry has hi = 0.
Wide(hi, lo) == [hi |-> hi, lo |-> lo]
ToInt(v) == v.lo
\* max(a, v) for an int a >= 0
WideMax(a, v) == IF v.hi > 0 \/ (v.hi = 0 /\ v.lo > a) THEN v ELSE Wide(0, a)
\* The member initializer of opt_change_interval.
DefaultInterval == 500

\* The explored scenarios.  Each fixes the files other processes write and
\* delete (mut), the manifest texts they save (texts), the files present at
\* the start (fs0, man0), the option values found in the registry and the
\* values the uninitialised b_keep_trigger_file may hold at the start
\* (either one where the trigger file can fire before a /keep is parsed),
\* the recent scripts (recent), the intervals QScripts_interval holds in the
\* registry (reg) and the ones the user types in the options dialog (dialog).
Present(S) == [p \in Files |-> IF p \in S THEN 1 ELSE 0]

Scenario(name, mut, texts, present, text0, undo, unload, keep) ==
    [name |-> name, mut |-> mut, texts |-> texts, fs0 |-> Present(present),
     man0 |-> [m \in ManifestFiles |-> text0],
     undo |-> undo, unload |-> unload, keep |-> keep,
     recent |-> RecentScripts, reg |-> {Wide(0, DefaultInterval)}, dialog |-> {}]

Scenarios ==
    { Scenario("plain", {MainScript}, {}, {}, 1, BOOLEAN, BOOLEAN, {FALSE}),
      Scenario("manifest", {Manifest}, {1, 2, 4}, {MainScript, Dep1}, 1,
               BOOLEAN, {FALSE}, {FALSE}),
      Scenario("dep", {Dep1}, {}, {MainScript, Manifest, Dep1}, 2,
               {FALSE}, {FALSE}, {FALSE}),
      Scenario("two deps", {Manifest}, {3},
               {MainScript, Manifest, Dep1, Dep2}, 3, {FALSE}, {FALSE}, {FALSE}),
      Scenario("trigger", {TriggerF}, {},
               {MainScript, Manifest, Dep1}, 4, {FALSE}, {FALSE}, BOOLEAN),
      Scenario("trigger keep", {TriggerF}, {},
               {MainScript, Manifest, Dep1}, 5, {FALSE}, {FALSE}, {FALSE}),
      Scenario("trigger and manifest", {Manifest, TriggerF}, {4},
               {MainScript, Manifest, Dep1}, 4, {FALSE}, {FALSE}, {FALSE}),
      Scenario("trigger and main", {MainScript, TriggerF}, {},
               {MainScript, Manifest, Dep1}, 4, {FALSE}, {FALSE}, {FALSE}) }

\* The texts of the three manifests.
Texts(a, b, c) == (Manifest :> a) @@ (Manifest1 :> b) @@ (Manifest2 :> c)

\* Scenarios with manifests of deps, manifests that form a cycle, deps
\* before and after /reload lines, a manifest for each of RawLines, two recent
\* scripts, a manifest that is deleted while its dep is being edited, and
\* intervals from the registry and the options dialog.
ScenariosFull ==
    { [Scenario("child manifest", {Dep2}, {},
                {MainScript, Dep1, Dep2, Manifest, Manifest1}, 6,
                {FALSE}, {FALSE}, {FALSE})
          EXCEPT !.man0 = Texts(6, 7, 1)],
      [Scenario("child keep", {TriggerF},  {},
                {MainScript, Dep1, Manifest, Manifest1}, 8,
                {FALSE}, {FALSE}, {FALSE})
          EXCEPT !.man0 = Texts(8, 9, 1)],
      [Scenario("two rows", {MainScript}, {},
                {MainScript, Dep1, Manifest}, 2,
                {FALSE}, {FALSE}, {FALSE})
          EXCEPT !.recent = <<MainScript, Dep1>>],
      [Scenario("self cycle", {Manifest}, {1, 10}, {MainScript, Dep1, Manifest}, 10,
                {FALSE}, {FALSE}, {FALSE})
          EXCEPT !.man0 = Texts(10, 1, 1)],
      [Scenario("mutual cycle", {}, {},
                {MainScript, Dep1, Dep2, Manifest, Manifest1, Manifest2}, 1,
                {FALSE}, {FALSE}, {FALSE})
          EXCEPT !.man0 = Texts(1, 11, 12)],
      [Scenario("reload order", {Dep1}, {},
                {MainScript, Dep1, Dep2, Manifest, Manifest1}, 13,
                {FALSE}, {FALSE}, {FALSE})
          EXCEPT !.man0 = Texts(13, 11, 1)],
      Scenario("reload empty", {}, {}, {MainScript, Dep1, Dep2, Manifest}, 14,
               {FALSE}, {FALSE}, {FALSE}),
      Scenario("manifest gone", {Manifest, Dep1}, {}, {MainScript, Dep1, Manifest}, 2,
               {FALSE}, {FALSE}, {FALSE}),
      [Scenario("options", {}, {}, {MainScript}, 1,
                BOOLEAN, BOOLEAN, {FALSE})
          EXCEPT !.reg = {Wide(0, 100), Wide(0, 700)},
                 !.dialog = {Wide(0, 100), Wide(0, 1000), Wide(1, 1000)}] }
    \cup { Scenario("line", {}, {}, {MainScript, Dep1, Dep2, Manifest},
                     Len(ManifestContents) - Len(RawLines) + i,
                     {FALSE}, {FALSE}, {FALSE}) : i \in 1..Len(RawLines) }

VARIABLES
    world,                     \* the scenario, fixed
    configured,                \* the interval the registry or the dialog
                               \* supplied last
    fs,                        \* path -> mtime of the file, 0: no such file
    man,                       \* manifest path -> index of its text
    m_scripts,                 \* the chooser's rows (script_info_t)
    selected_script,           \* active_script_info_t
    m_b_filemon_timer_active,  \* the monitor's armed flag
    opt_change_interval,
    opt_exec_unload_func,
    opt_with_undo,
    reg_selected,              \* registry QScripts_selected_script_name
    stack,                     \* main-thread call stack, innermost last
    pending,                   \* queued requests of the undo action
    timer_ret,                 \* what the last timer callback returned
    crashed,                   \* the process died on a dangling iterator
    hist                       \* outcome of the last top-level tick, "dirty"
                               \* once the files or the user interfered

vars == <<world, configured, fs, man, m_scripts, selected_script, m_b_filemon_timer_active,
          opt_change_interval, opt_exec_unload_func, opt_with_undo,
          reg_selected, stack, pending, timer_ret, crashed, hist>>

\* ------------------------------------------------------------ fileinfo_t
\* get_file_modification_time: found, and the mtime when found.
FileFound(f, p) == p \in Files /\ f[p] # 0
FileTime(f, p)  == IF p \in Files THEN f[p] ELSE 0

FileInfo(p, t) == [file_path |-> p, modified_time |-> t]

\* fileinfo_t::refresh(path): the mtime is left as it was when the file is
\* not found.
Refresh(f, fi, p) ==
    [fi EXCEPT !.file_path = p,
               !.modified_time = IF FileFound(f, p) THEN f[p] ELSE @]

\* Mutant: a missing file leaves the stored mtime as it was.
get_modification_status_keeps_missing(f, p, t) ==
    IF ~FileFound(f, p) THEN [st |-> "not_found", mt |-> t]
    ELSE IF f[p] = t THEN [st |-> "not_modified", mt |-> t]
    ELSE [st |-> "modified", mt |-> f[p]]

\* Mutant: a modified file's new mtime is not stored.
get_modification_status_not_stored(f, p, t) ==
    IF ~FileFound(f, p) THEN [st |-> "not_found", mt |-> 0]
    ELSE IF f[p] = t THEN [st |-> "not_modified", mt |-> t]
    ELSE [st |-> "modified", mt |-> t]

\* fileinfo_t::get_modification_status(true): the status and the new mtime.
get_modification_status(f, p, t) ==
    IF ~FileFound(f, p) THEN [st |-> "not_found", mt |-> 0]
    ELSE IF f[p] = t THEN [st |-> "not_modified", mt |-> t]
    ELSE [st |-> "modified", mt |-> f[p]]

\* -------------------------------------------------- active_script_info_t
NoFile == FileInfo(NoPath, 0)
NoDeps == [p \in {} |-> 0]

\* Mutant: a dep is recorded without the reload command.
DepScript_no_reload(t, cmd, base) ==
    [modified_time |-> t, reload_cmd |-> "", pkg_base |-> base]

\* Mutant: a dep is recorded without its file's mtime.
DepScript_no_mtime(t, cmd, base) ==
    [modified_time |-> 0, reload_cmd |-> cmd, pkg_base |-> base]

\* A dep as the parser records it (script_info_t without its path).
DepScript(t, cmd, base) ==
    [modified_time |-> t, reload_cmd |-> cmd, pkg_base |-> base]

\* The object after clear().
EmptyScript ==
    [file_path |-> NoPath, modified_time |-> 0,
     reload_cmd |-> "", pkg_base |-> "",
     trigger_file |-> NoFile, b_keep_trigger_file |-> FALSE,
     dep_indices |-> <<>>, dep_scripts |-> NoDeps]

has_selected_script(sel) == sel.file_path # NoPath
\* Mutant: the trigger file is not looked at.
trigger_based_never(sel) == FALSE
trigger_based(sel) == sel.trigger_file.file_path # NoPath
\* Mutant: no dep is taken to have a reload directive.
has_reload_directive_never(d) == FALSE
has_reload_directive(d) == d.reload_cmd # ""

\* Mutant: the assignment leaves the manifests of the last parse.
AssignScript_keeps_indices(sel, p, t) ==
    [sel EXCEPT !.file_path = p, !.modified_time = t, !.dep_scripts = NoDeps]

\* active_script_info_t::operator=(script_info_t): path and mtime are
\* copied, deps and manifests dropped; the trigger, the keep flag, reload_cmd
\* and pkg_base are left as they are.
AssignScript(sel, p, t) ==
    [sel EXCEPT !.file_path = p, !.modified_time = t,
                !.dep_scripts = NoDeps, !.dep_indices = <<>>]

\* Mutant: clear() leaves the deps and the manifests.
ClearScript_keeps_deps(sel) ==
    [EmptyScript EXCEPT !.dep_scripts = sel.dep_scripts,
                        !.dep_indices = sel.dep_indices]

\* active_script_info_t::clear
ClearScript(sel) == EmptyScript

\* Mutant: no mtime is reset.
invalidate_all_scripts_keeps(sel) == sel

\* active_script_info_t::invalidate_all_scripts
invalidate_all_scripts(sel) ==
    [sel EXCEPT !.modified_time = 0,
                !.dep_scripts = [p \in DOMAIN @ |-> [@[p] EXCEPT !.modified_time = 0]]]

\* active_script_info_t::add_dep_index
add_dep_index(f, sel, m) ==
    IF FileFound(f, m)
    THEN [sel EXCEPT !.dep_indices = Append(@, FileInfo(m, f[m]))]
    ELSE sel

\* active_script_info_t::is_any_dep_index_modified(true): the manifests are
\* probed in order up to the first that is not "not_modified"; every probe
\* stores what it saw.
RECURSIVE ProbeIndices(_, _, _)
ProbeIndices(f, idx, i) ==
    IF i > Len(idx) THEN [st |-> "not_modified", idx |-> idx]
    ELSE LET r == get_modification_status(f, idx[i].file_path, idx[i].modified_time)
             idx1 == [idx EXCEPT ![i].modified_time = r.mt]
         IN  IF r.st # "not_modified" THEN [st |-> r.st, idx |-> idx1]
             ELSE ProbeIndices(f, idx1, i + 1)

is_any_dep_index_modified(f, sel) == ProbeIndices(f, sel.dep_indices, 1)

\* -------------------------------------------------- parse_deps_for_script
DepsName(s) == s \o ".deps.qscripts"
ProjName(s) == s \o ".proj.qscripts"

\* The characters put together again.
RECURSIVE Join(_)
Join(cs) == IF cs = <<>> THEN "" ELSE cs[1] \o Join(Tail(cs))

\* The lambda get_value(str, key, key_len): null unless str begins with
\* key; the empty string if str ends there; else str + key_len + 1.
get_value(str, key) ==
    IF Len(str) < Len(key) \/ SubSeq(str, 1, Len(key)) # key
    THEN [null |-> TRUE, val |-> <<>>]
    ELSE [null |-> FALSE, val |-> SubSeq(str, Len(key) + 2, Len(str))]

\* What the loop makes of a trimmed line: nothing (empty or a comment), a
\* directive, or a dependency path.
ReadLine(ln) ==
    IF ln.k # "raw" THEN ln
    ELSE LET str  == ln.v
             pkg  == get_value(str, <<"/", "p", "k", "g", "b", "a", "s", "e">>)
             rel  == get_value(str, <<"/", "r", "e", "l", "o", "a", "d">>)
             trg  == get_value(str, <<"/", "t", "r", "i", "g", "g", "e", "r",
                                      "f", "i", "l", "e">>)
             keep == get_value(trg.val, <<"/", "k", "e", "e", "p">>)
         IN  IF str = <<>> \/ str[1] \in {"#", ";"}
                \/ (Len(str) >= 2 /\ str[1] = "/" /\ str[2] = "/")
             THEN [k |-> "skip", v |-> "", keep |-> FALSE]
             ELSE IF ~pkg.null THEN LPkgBase(Join(pkg.val))
             ELSE IF ~rel.null THEN LReload(Join(rel.val))
             ELSE IF ~trg.null
             THEN LTrigger(Join(IF keep.null THEN trg.val ELSE keep.val), ~keep.null)
             ELSE LDep(Join(str))

\* The text of an existing manifest file, as the parser's loop reads it.
ManifestText(mn, m) ==
    [i \in 1..Len(ManifestContents[mn[m]]) |-> ReadLine(ManifestContents[mn[m]][i])]

expand_file_name(p, ctx) == p
make_abs_path(p, base) == p

ExpandCtx(s, main) ==
    [script_file |-> s, main_file |-> main, base_dir |-> "",
     pkg_base |-> "", reload_cmd |-> ""]

RECURSIVE parse_deps_for_script(_, _, _, _, _)
RECURSIVE ParseLines(_, _, _, _, _, _, _)

\* The loop over the lines of one manifest; ctx is the caller's context,
\* changed in place by the directives and by each dependency line.  The
\* result is the active script and whether a nested call found the
\* process's resources used up (ovf).
ParseLines(f, mn, lines, i, ctx, sel, depth) ==
    IF i > Len(lines) THEN [sel |-> sel, ovf |-> FALSE]
    ELSE LET ln == lines[i] IN
      CASE ln.k = "skip" -> ParseLines(f, mn, lines, i + 1, ctx, sel, depth)
        [] ln.k = "pkgbase" ->
             ParseLines(f, mn, lines, i + 1,
                 IF ctx.main_file
                 THEN [ctx EXCEPT !.pkg_base = make_abs_path(ln.v, ctx.base_dir)]
                 ELSE ctx, sel, depth)
        [] ln.k = "reload" ->
             ParseLines(f, mn, lines, i + 1,
                 IF ctx.main_file THEN [ctx EXCEPT !.reload_cmd = ln.v] ELSE ctx,
                 sel, depth)
        [] ln.k = "trigger" ->
             LET sel1 == IF ln.keep
                         THEN [sel EXCEPT !.b_keep_trigger_file = TRUE]
                         ELSE sel
                 sel2 == IF ctx.main_file
                         THEN [sel1 EXCEPT !.trigger_file =
                                  [Refresh(f, @, ln.v) EXCEPT
                                      !.file_path = expand_file_name(ln.v, ctx)]]
                         ELSE sel1
             IN  ParseLines(f, mn, lines, i + 1, ctx, sel2, depth)
        [] OTHER ->
             LET ctx1 == [ctx EXCEPT !.script_file = ln.v]
                 line == expand_file_name(ln.v, ctx1)
             IN  IF ~FileFound(f, line)
                 THEN ParseLines(f, mn, lines, i + 1, ctx1, sel, depth)
                 ELSE LET dep  == DepScript(f[line], ctx1.reload_cmd, ctx1.pkg_base)
                          sel1 == [sel EXCEPT !.dep_scripts = (line :> dep) @@ @]
                          sub  == [ctx1 EXCEPT !.script_file = line,
                                               !.main_file = FALSE]
                          r    == parse_deps_for_script(f, mn, sub, sel1, depth + 1)
                          rest == ParseLines(f, mn, lines, i + 1, ctx1, r.sel, depth)
                      IN  [sel |-> rest.sel, ovf |-> r.ovf \/ rest.ovf]

\* depth manifests are open once this call has opened its own.  A call
\* that would be the (MaxParseDepth + 1)-th finds no stream left: its two
\* qfopen fail and it returns false like a call that finds no manifest
\* (the caller may instead have died of its stack, see ParseExhausts).
parse_deps_for_script(f, mn, ctx, sel, depth) ==
    LET dep_file == IF FileFound(f, DepsName(ctx.script_file))
                    THEN DepsName(ctx.script_file)
                    ELSE ProjName(ctx.script_file)
    IN  IF ~FileFound(f, dep_file) THEN [ok |-> FALSE, sel |-> sel, ovf |-> FALSE]
        ELSE IF depth > MaxParseDepth THEN [ok |-> FALSE, sel |-> sel, ovf |-> TRUE]
        ELSE LET ctx1 == [ctx EXCEPT !.base_dir = "/t"]
                 sel1 == add_dep_index(f, sel, dep_file)
                 r    == ParseLines(f, mn, ManifestText(mn, dep_file), 1, ctx1, sel1,
                                    depth)
             IN  [ok |-> TRUE, sel |-> r.sel, ovf |-> r.ovf]

\* set_selected_script(script): script is a chooser row or selected_script
\* itself (p and t are its path and mtime).
set_selected_script(f, mn, sel, p, t) ==
    parse_deps_for_script(f, mn, ExpandCtx(p, TRUE), AssignScript(sel, p, t), 1).sel

\* The manifests of script p send the parser into a recursion that ends
\* only when the process cannot open another file, if its stack has not
\* overflowed before.
ParseExhausts(f, mn, p) ==
    parse_deps_for_script(f, mn, ExpandCtx(p, TRUE), EmptyScript, 1).ovf

\* ------------------------------------------------------------ the monitor
\* Mutant: the monitor can be armed but not paused.
activate_monitor_never_pauses(flag, activate) ==
    [old |-> flag, new |-> flag \/ activate]

\* Mutant: the new value is returned as the old one.
activate_monitor_returns_new(flag, activate) == [old |-> activate, new |-> activate]

\* activate_monitor(activate): the flag's old and new value.
activate_monitor(flag, activate) == [old |-> flag, new |-> activate]

\* The least interval, in milliseconds.
MinInterval == 300
normalize_filemon_interval(n) == IF n > MinInterval THEN n ELSE MinInterval

\* ------------------------------------------------------------- call stack
\* kind  "tick" (filemon_timer_cb), "exec" (execute_script_sync),
\*       "enter" (the chooser's enter)
\* pc    tick:  "deps" in the loop over dep_scripts, "eval" eval_snippet in
\*              flight, "exec" in execute_script, "ret" back from it
\*       exec:  "start", then "unload", "compile", "main": that engine call
\*              is in flight
\*       enter: "exec", "ret"
\* todo  tick: the deps the loop has not visited yet
\* changed tick: dep_script_changed;  cur: the dep being reloaded
\* trig  tick: this tick saw the trigger file modified
\* top   tick: entered with an empty stack
\* inval tick: dep_scripts was cleared or rebuilt under the suspended loop
\* target exec: 0 for &selected_script, n for &m_scripts[n];  enter: the
\*       row n entered
\* old   exec: old_state;  pre: the armed flag when the call was entered
\* ok    the callee's result
\* ticks a timer callback ran while this frame's engine call was in flight
\* prev  tick: hist when the tick was entered
Frame(kind, pc) ==
    [kind |-> kind, pc |-> pc, todo |-> {}, changed |-> FALSE, cur |-> NoPath,
     trig |-> FALSE, top |-> FALSE, inval |-> FALSE, target |-> 0,
     old |-> FALSE, pre |-> FALSE, ok |-> FALSE, ticks |-> FALSE,
     prev |-> [o |-> "dirty", d |-> NoPath]]

Top == stack[Len(stack)]
Idle == stack = <<>>
Pop(st) == SubSeq(st, 1, Len(st) - 1)
SetTop(st, fr) == [st EXCEPT ![Len(st)] = fr]
EnginePcs == {"eval", "unload", "compile", "main"}
InFlight == stack # <<>> /\ Top.pc \in EnginePcs
ExecInFlight == \E i \in 1..Len(stack) : stack[i].kind = "exec" /\ stack[i].pc # "start"

\* A timer callback runs on top of st.
Ticked(st) ==
    IF st = <<>> THEN st ELSE SetTop(st, [st[Len(st)] EXCEPT !.ticks = TRUE])

\* Every suspended loop over dep_scripts loses its iterator.
Invalidate(st) ==
    [i \in 1..Len(st) |-> IF st[i].kind = "tick" THEN [st[i] EXCEPT !.inval = TRUE]
                          ELSE st[i]]

TickFrames(st) == Cardinality({i \in 1..Len(st) : st[i].kind = "tick"})

\* The callee on top returns ok to its caller, if it has one.
Return(st, ok) ==
    LET st1 == Pop(st) IN
    IF st1 = <<>> THEN st1
    ELSE SetTop(st1, [st1[Len(st1)] EXCEPT !.ok = ok, !.pc = "ret"])

Outcome(o, d) == [o |-> o, d |-> d]
Dirty == Outcome("dirty", NoPath)
\* A top-level tick records how it ended unless the files changed under it.
Ended(top, o, d) == IF top /\ hist # Dirty THEN Outcome(o, d) ELSE hist
\* A top-level tick that returns at once.
Now(o, d) == IF Idle THEN Outcome(o, d) ELSE hist

\* ------------------------------------------------------- filemon_timer_cb
\* The host runs the timer callback when the main thread is idle or inside
\* an engine call.
TimerFires == ~crashed /\ (Idle \/ InFlight)

Armed == m_b_filemon_timer_active /\ has_selected_script(selected_script)

\* Step 1, trigger mode: the probe of the trigger file.
TrigStatus ==
    get_modification_status(fs, selected_script.trigger_file.file_path,
                            selected_script.trigger_file.modified_time)
TrigFired == trigger_based(selected_script) /\ TrigStatus.st = "modified"
Step1Sel ==
    IF trigger_based(selected_script)
    THEN [selected_script EXCEPT
             !.trigger_file.modified_time = TrigStatus.mt,
             !.modified_time = IF TrigFired THEN 0 ELSE @]
    ELSE selected_script
\* Mutant: the trigger file is never deleted.
Step1Fs_never_unlinks == fs
\* qunlink of the trigger file
Step1Fs ==
    IF TrigFired /\ ~selected_script.b_keep_trigger_file
       /\ selected_script.trigger_file.file_path \in Files
    THEN [fs EXCEPT ![selected_script.trigger_file.file_path] = 0]
    ELSE fs
\* Step 2: the probe of the manifests.
IdxProbe == is_any_dep_index_modified(Step1Fs, Step1Sel)
Step2Sel == [Step1Sel EXCEPT !.dep_indices = IdxProbe.idx]

\* Step 0: disarmed or no active script.
TickIdle ==
    /\ TimerFires
    /\ ~Armed
    /\ timer_ret' = opt_change_interval
    /\ hist' = Now("idle", NoPath)
    /\ stack' = Ticked(stack)
    /\ UNCHANGED <<world, configured, fs, man, m_scripts, selected_script, m_b_filemon_timer_active,
                   opt_change_interval, opt_exec_unload_func, opt_with_undo,
                   reg_selected, pending, crashed>>

\* Step 1: trigger mode and the trigger file is not seen as modified.
TickNoTrigger ==
    /\ TimerFires
    /\ Armed
    /\ trigger_based(selected_script) /\ ~TrigFired
    /\ selected_script' = Step1Sel
    /\ timer_ret' = opt_change_interval
    /\ hist' = Now("notrigger", NoPath)
    /\ stack' = Ticked(stack)
    /\ UNCHANGED <<world, configured, fs, man, m_scripts, m_b_filemon_timer_active,
                   opt_change_interval, opt_exec_unload_func, opt_with_undo,
                   reg_selected, pending, crashed>>

\* Step 2: a manifest is seen as modified: re-parse, invalidate, return 1.
\* A parse that runs out of resources may have killed the process (dies).
TickReparse ==
    /\ TimerFires
    /\ Armed
    /\ ~trigger_based(selected_script) \/ TrigFired
    /\ IdxProbe.st = "modified"
    /\ fs' = Step1Fs
    /\ \E dies \in BOOLEAN :
         /\ dies => ParseExhausts(Step1Fs, man, Step2Sel.file_path)
         /\ IF dies
            THEN /\ crashed' = TRUE
                 /\ stack' = <<>>
                 /\ UNCHANGED <<selected_script, timer_ret, hist>>
            ELSE /\ crashed' = crashed
                 /\ selected_script' =
                       invalidate_all_scripts(
                           set_selected_script(Step1Fs, man,
                               [Step2Sel EXCEPT !.dep_scripts = NoDeps],
                               Step2Sel.file_path, Step2Sel.modified_time))
                 /\ stack' = Invalidate(Ticked(stack))
                 /\ timer_ret' = 1
                 /\ hist' = Now(IF TrigFired THEN "reparse_trig" ELSE "reparse", NoPath)
    /\ UNCHANGED <<world, configured, man, m_scripts, m_b_filemon_timer_active,
                   opt_change_interval, opt_exec_unload_func, opt_with_undo,
                   reg_selected, pending>>

\* Mutant: a missing manifest leaves dep_scripts as it is.
TickLoop_keeps_deps ==
    /\ TimerFires
    /\ Armed
    /\ ~trigger_based(selected_script) \/ TrigFired
    /\ IdxProbe.st # "modified"
    /\ Len(stack) + 2 <= MaxDepth
    /\ opt_with_undo => pending + TickFrames(stack) < MaxPending
    /\ selected_script' = Step2Sel
    /\ stack' = Append(Ticked(stack),
                       [Frame("tick", "deps") EXCEPT
                           !.todo = DOMAIN Step2Sel.dep_scripts,
                           !.top = Idle, !.trig = TrigFired,
                           !.prev = IF Idle THEN hist ELSE Dirty])
    /\ fs' = Step1Fs
    /\ hist' = Now("running", NoPath)
    /\ UNCHANGED <<world, configured, man, m_scripts, m_b_filemon_timer_active,
                   opt_change_interval, opt_exec_unload_func, opt_with_undo,
                   reg_selected, pending, timer_ret, crashed>>

\* Steps 1-2 passed: the tick enters the loop over the deps.  A missing
\* manifest empties dep_scripts first.
TickLoop ==
    /\ TimerFires
    /\ Armed
    /\ ~trigger_based(selected_script) \/ TrigFired
    /\ IdxProbe.st # "modified"
    /\ Len(stack) + 2 <= MaxDepth
    /\ opt_with_undo => pending + TickFrames(stack) < MaxPending
    /\ LET gone == IdxProbe.st = "not_found" /\ DOMAIN Step2Sel.dep_scripts # {}
           sel1 == IF gone THEN [Step2Sel EXCEPT !.dep_scripts = NoDeps]
                   ELSE Step2Sel
       IN  /\ selected_script' = sel1
           /\ stack' = Append(IF gone THEN Invalidate(Ticked(stack)) ELSE Ticked(stack),
                              [Frame("tick", "deps") EXCEPT
                                  !.todo = DOMAIN sel1.dep_scripts,
                                  !.top = Idle, !.trig = TrigFired,
                                  !.prev = IF Idle THEN hist ELSE Dirty])
    /\ fs' = Step1Fs
    /\ hist' = Now("running", NoPath)
    /\ UNCHANGED <<world, configured, man, m_scripts, m_b_filemon_timer_active,
                   opt_change_interval, opt_exec_unload_func, opt_with_undo,
                   reg_selected, pending, timer_ret, crashed>>

InLoop == ~crashed /\ stack # <<>> /\ Top.kind = "tick" /\ Top.pc = "deps"

\* Step 3: the loop visits one dep (an unordered_map: in any order).  A
\* modified dep with a reload directive is reloaded by
\* execute_reload_directive: no engine for its extension fails at once,
\* otherwise eval_snippet is entered.
TickDep ==
    /\ InLoop
    /\ \E d \in Top.todo, engine \in BOOLEAN :
         LET dep == selected_script.dep_scripts[d]
             r   == get_modification_status(fs, d, dep.modified_time)
             mod == r.st = "modified"
             rel == mod /\ has_reload_directive(dep)
         IN  /\ ~rel => engine
             /\ selected_script' =
                   [selected_script EXCEPT !.dep_scripts[d].modified_time = r.mt]
             /\ IF rel /\ ~engine
                THEN /\ stack' = Pop(stack)
                     /\ timer_ret' = opt_change_interval
                     /\ hist' = Ended(Top.top, "reloadfail", d)
                ELSE /\ stack' = SetTop(stack,
                            [Top EXCEPT !.changed = @ \/ mod,
                                        !.todo = IF rel THEN @ ELSE @ \ {d},
                                        !.pc = IF rel THEN "eval" ELSE "deps",
                                        !.cur = IF rel THEN d ELSE NoPath])
                     /\ timer_ret' = timer_ret
                     /\ hist' = hist
    /\ UNCHANGED <<world, configured, fs, man, m_scripts, m_b_filemon_timer_active,
                   opt_change_interval, opt_exec_unload_func, opt_with_undo,
                   reg_selected, pending, crashed>>

EvalInFlight == ~crashed /\ stack # <<>> /\ Top.kind = "tick" /\ Top.pc = "eval"

\* Mutant: a failed reload does not end the tick, the loop goes on.
EvalFails_goes_on ==
    /\ EvalInFlight
    /\ stack' = SetTop(stack, [Top EXCEPT !.todo = @ \ {Top.cur}, !.pc = "deps",
                                          !.cur = NoPath])
    /\ UNCHANGED <<world, configured, fs, man, m_scripts, selected_script, m_b_filemon_timer_active,
                   opt_change_interval, opt_exec_unload_func, opt_with_undo,
                   reg_selected, pending, timer_ret, crashed, hist>>

\* eval_snippet returns false: execute_reload_directive fails and the tick
\* is aborted.
EvalFails ==
    /\ EvalInFlight
    /\ stack' = Pop(stack)
    /\ timer_ret' = opt_change_interval
    /\ hist' = Ended(Top.top, "reloadfail", Top.cur)
    /\ UNCHANGED <<world, configured, fs, man, m_scripts, selected_script, m_b_filemon_timer_active,
                   opt_change_interval, opt_exec_unload_func, opt_with_undo,
                   reg_selected, pending, crashed>>

\* eval_snippet returns true and the loop goes on; if dep_scripts was
\* cleared or rebuilt meanwhile its iterator dangles: the loop may end,
\* visit any of the present entries, or the process may die.
EvalSucceeds ==
    /\ EvalInFlight
    /\ IF Top.inval
       THEN \/ /\ crashed' = TRUE
               /\ stack' = <<>>
            \/ /\ crashed' = crashed
               /\ \E rest \in SUBSET DOMAIN selected_script.dep_scripts :
                    stack' = SetTop(stack,
                        [Top EXCEPT !.todo = rest, !.pc = "deps",
                                    !.cur = NoPath, !.inval = FALSE])
       ELSE /\ crashed' = crashed
            /\ stack' = SetTop(stack,
                    [Top EXCEPT !.todo = @ \ {Top.cur}, !.pc = "deps",
                                !.cur = NoPath])
    /\ UNCHANGED <<world, configured, fs, man, m_scripts, selected_script, m_b_filemon_timer_active,
                   opt_change_interval, opt_exec_unload_func, opt_with_undo,
                   reg_selected, pending, timer_ret, hist>>

\* execute_script(script, with_undo) with_undo: process_ui_action queues
\* the action ACTION_EXECUTE_SCRIPT_WITH_UNDO_ID in the host, which runs it
\* later (HostRunsAction); the call returns true.
ExecFrame(n) == [Frame("exec", "start") EXCEPT !.target = n]

\* Step 4: the loop is over, the main script is probed.
TickMain ==
    /\ InLoop /\ Top.todo = {}
    /\ LET r == get_modification_status(fs, selected_script.file_path,
                                        selected_script.modified_time)
       IN  IF r.st = "not_found"
           THEN \* clear_selected_script
                /\ selected_script' = ClearScript(selected_script)
                /\ m_b_filemon_timer_active' =
                      activate_monitor(m_b_filemon_timer_active, FALSE).new
                /\ stack' = Invalidate(Pop(stack))
                /\ timer_ret' = opt_change_interval
                /\ pending' = pending
                /\ hist' = Ended(Top.top, "cleared", NoPath)
           ELSE /\ selected_script' = [selected_script EXCEPT !.modified_time = r.mt]
                /\ m_b_filemon_timer_active' = m_b_filemon_timer_active
                /\ IF Top.changed \/ r.st = "modified"
                   THEN IF opt_with_undo
                        THEN /\ pending' = pending + 1
                             /\ stack' = Pop(stack)
                             /\ timer_ret' = opt_change_interval
                             /\ hist' = Ended(Top.top, "request", NoPath)
                        ELSE /\ pending' = pending
                             /\ stack' = Append(SetTop(stack, [Top EXCEPT !.pc = "exec"]),
                                                ExecFrame(0))
                             /\ timer_ret' = timer_ret
                             /\ hist' = hist
                   ELSE /\ pending' = pending
                        /\ stack' = Pop(stack)
                        /\ timer_ret' = opt_change_interval
                        /\ hist' = Ended(Top.top, "quiet", NoPath)
    /\ UNCHANGED <<world, configured, fs, man, m_scripts, opt_change_interval, opt_exec_unload_func,
                   opt_with_undo, reg_selected, crashed>>

\* Step 5: execute_script_sync has returned into the tick (the outcome
\* names the script if its execution failed).
TickReturn ==
    /\ ~crashed /\ stack # <<>> /\ Top.kind = "tick" /\ Top.pc = "ret"
    /\ stack' = Pop(stack)
    /\ timer_ret' = opt_change_interval
    /\ hist' = Ended(Top.top, "exec",
                     IF Top.ok THEN NoPath ELSE selected_script.file_path)
    /\ UNCHANGED <<world, configured, fs, man, m_scripts, selected_script, m_b_filemon_timer_active,
                   opt_change_interval, opt_exec_unload_func, opt_with_undo,
                   reg_selected, pending, crashed>>

\* ---------------------------------------------------- execute_script_sync
ScriptPath(n) == IF n = 0 THEN selected_script.file_path ELSE m_scripts[n].file_path

\* Mutant: the file's mtime is not taken.
Stamp_never(n, t) == UNCHANGED <<selected_script, m_scripts>>

\* script_info->modified_time := t
Stamp(n, t) ==
    IF n = 0
    THEN /\ selected_script' = [selected_script EXCEPT !.modified_time = t]
         /\ m_scripts' = m_scripts
    ELSE /\ m_scripts' = [m_scripts EXCEPT ![n].modified_time = t]
         /\ selected_script' = selected_script

\* Up to the first engine call: pause the monitor, take the mtime, find the
\* engine.  A missing file or a missing engine ends the call at once.
ExecBegin ==
    /\ ~crashed /\ stack # <<>> /\ Top.kind = "exec" /\ Top.pc = "start"
    /\ \E engine \in BOOLEAN :
         LET am   == activate_monitor(m_b_filemon_timer_active, FALSE)
             file == ScriptPath(Top.target)
         IN  IF ~FileFound(fs, file)
             THEN /\ engine
                  /\ UNCHANGED <<selected_script, m_scripts>>
                  /\ m_b_filemon_timer_active' = activate_monitor(am.new, am.old).new
                  /\ stack' = Return(stack, FALSE)
             ELSE /\ Stamp(Top.target, fs[file])
                  /\ IF ~engine
                     THEN /\ m_b_filemon_timer_active' =
                                activate_monitor(am.new, am.old).new
                          /\ stack' = Return(stack, FALSE)
                     ELSE /\ m_b_filemon_timer_active' = am.new
                          /\ stack' = SetTop(stack,
                                 [Top EXCEPT !.old = am.old,
                                             !.pre = m_b_filemon_timer_active,
                                             !.pc = IF opt_exec_unload_func
                                                    THEN "unload" ELSE "compile"])
    /\ UNCHANGED <<world, configured, fs, man, opt_change_interval, opt_exec_unload_func,
                   opt_with_undo, reg_selected, pending, timer_ret, crashed, hist>>

\* Mutant: a failed unload hook ends the call.
UnloadReturn_failure_ends ==
    /\ ~crashed /\ stack # <<>> /\ Top.kind = "exec" /\ Top.pc = "unload"
    /\ \E ok \in BOOLEAN :
         IF ok
         THEN /\ stack' = SetTop(stack, [Top EXCEPT !.pc = "compile"])
              /\ m_b_filemon_timer_active' = m_b_filemon_timer_active
         ELSE /\ m_b_filemon_timer_active' =
                    activate_monitor(m_b_filemon_timer_active, Top.old).new
              /\ stack' = Return(stack, FALSE)
    /\ UNCHANGED <<world, configured, fs, man, m_scripts, selected_script,
                   opt_change_interval, opt_exec_unload_func, opt_with_undo,
                   reg_selected, pending, timer_ret, crashed, hist>>

\* call_func(__quick_unload_script) returns; its result is not looked at.
UnloadReturn ==
    /\ ~crashed /\ stack # <<>> /\ Top.kind = "exec" /\ Top.pc = "unload"
    /\ stack' = SetTop(stack, [Top EXCEPT !.pc = "compile"])
    /\ UNCHANGED <<world, configured, fs, man, m_scripts, selected_script, m_b_filemon_timer_active,
                   opt_change_interval, opt_exec_unload_func, opt_with_undo,
                   reg_selected, pending, timer_ret, crashed, hist>>

\* The end of execute_script_sync: activate_monitor(old_state), return.
ExecEnd(ok) ==
    /\ m_b_filemon_timer_active' =
          activate_monitor(m_b_filemon_timer_active, Top.old).new
    /\ stack' = Return(stack, ok)

\* compile_file returns: failed, or compiled and main is to be called (the
\* engine is IDC), or compiled and done.  The frame's ok is exec_ok.
CompileReturn ==
    /\ ~crashed /\ stack # <<>> /\ Top.kind = "exec" /\ Top.pc = "compile"
    /\ \E ok \in BOOLEAN, is_idc \in BOOLEAN :
         IF ok /\ is_idc
         THEN /\ stack' = SetTop(stack, [Top EXCEPT !.pc = "main", !.ok = TRUE])
              /\ m_b_filemon_timer_active' = m_b_filemon_timer_active
         ELSE /\ ~is_idc
              /\ ExecEnd(ok)
    /\ UNCHANGED <<world, configured, fs, man, m_scripts, selected_script,
                   opt_change_interval, opt_exec_unload_func, opt_with_undo,
                   reg_selected, pending, timer_ret, crashed, hist>>

\* call_func(main) returns.
MainReturn ==
    /\ ~crashed /\ stack # <<>> /\ Top.kind = "exec" /\ Top.pc = "main"
    /\ \E ok \in BOOLEAN :
         ExecEnd(ok)
    /\ UNCHANGED <<world, configured, fs, man, m_scripts, selected_script,
                   opt_change_interval, opt_exec_unload_func, opt_with_undo,
                   reg_selected, pending, timer_ret, crashed, hist>>

\* ------------------------------------------------------- the user's commands
\* The host dispatches a command only when the main thread is idle.
CanCommand == ~crashed /\ Idle

\* build_scripts_list: the rows of the recent scripts that exist.
RECURSIVE BuildList(_, _, _)
BuildList(f, lst, i) ==
    IF i > Len(lst) THEN <<>>
    ELSE (IF FileFound(f, lst[i]) THEN <<FileInfo(lst[i], f[lst[i]])>> ELSE <<>>)
         \o BuildList(f, lst, i + 1)

\* run(0): show
Show ==
    /\ CanCommand
    /\ m_scripts' = BuildList(fs, world.recent, 1)
    /\ hist' = Dirty
    /\ UNCHANGED <<world, configured, fs, man, selected_script, m_b_filemon_timer_active,
                   opt_change_interval, opt_exec_unload_func, opt_with_undo,
                   reg_selected, stack, pending, timer_ret, crashed>>

\* The chooser's enter(n): set_selected_script, execute_script, then
\* activate_monitor() whatever the result.  With undo the execution is only
\* requested and enter runs to its end at once.  A parse that runs out of
\* resources may have killed the process (dies).
Enter ==
    /\ CanCommand
    /\ \E n \in 1..Len(m_scripts), dies \in BOOLEAN :
         LET sel1 == set_selected_script(fs, man, selected_script,
                         m_scripts[n].file_path, m_scripts[n].modified_time)
         IN  /\ dies => ParseExhausts(fs, man, m_scripts[n].file_path)
             /\ IF dies
                THEN /\ crashed' = TRUE
                     /\ UNCHANGED <<selected_script, pending, reg_selected,
                                    m_b_filemon_timer_active, stack>>
                ELSE IF opt_with_undo
                THEN /\ pending < MaxPending
                     /\ crashed' = crashed
                     /\ selected_script' = sel1
                     /\ pending' = pending + 1
                     /\ reg_selected' = sel1.file_path
                     /\ m_b_filemon_timer_active' =
                           activate_monitor(m_b_filemon_timer_active, TRUE).new
                     /\ stack' = stack
                ELSE /\ crashed' = crashed
                     /\ selected_script' = sel1
                     /\ pending' = pending
                     /\ reg_selected' = reg_selected
                     /\ m_b_filemon_timer_active' = m_b_filemon_timer_active
                     /\ stack' = <<[Frame("enter", "exec") EXCEPT !.target = n],
                                   ExecFrame(0)>>
    /\ hist' = Dirty
    /\ UNCHANGED <<world, configured, fs, man, m_scripts, opt_change_interval, opt_exec_unload_func,
                   opt_with_undo, timer_ret>>

\* Mutant: the name is saved whatever execute_script returned.
EnterReturn_always_saves ==
    /\ ~crashed /\ stack # <<>> /\ Top.kind = "enter" /\ Top.pc = "ret"
    /\ reg_selected' = selected_script.file_path
    /\ m_b_filemon_timer_active' =
          activate_monitor(m_b_filemon_timer_active, TRUE).new
    /\ stack' = Pop(stack)
    /\ UNCHANGED <<world, configured, fs, man, m_scripts, selected_script, opt_change_interval,
                   opt_exec_unload_func, opt_with_undo, pending, timer_ret,
                   crashed, hist>>

\* enter after execute_script_sync: saveload_options(true, OPTID_ONLY_SCRIPT)
\* if it succeeded, then activate_monitor().
EnterReturn ==
    /\ ~crashed /\ stack # <<>> /\ Top.kind = "enter" /\ Top.pc = "ret"
    /\ reg_selected' = IF Top.ok THEN selected_script.file_path ELSE reg_selected
    /\ m_b_filemon_timer_active' =
          activate_monitor(m_b_filemon_timer_active, TRUE).new
    /\ stack' = Pop(stack)
    /\ UNCHANGED <<world, configured, fs, man, m_scripts, selected_script, opt_change_interval,
                   opt_exec_unload_func, opt_with_undo, pending, timer_ret,
                   crashed, hist>>

\* The action "Deactivate script monitor": clear_selected_script.
Deactivate ==
    /\ CanCommand
    /\ m_b_filemon_timer_active
    /\ selected_script' = ClearScript(selected_script)
    /\ m_b_filemon_timer_active' =
          activate_monitor(m_b_filemon_timer_active, FALSE).new
    /\ hist' = Dirty
    /\ UNCHANGED <<world, configured, fs, man, m_scripts, opt_change_interval, opt_exec_unload_func,
                   opt_with_undo, reg_selected, stack, pending, timer_ret, crashed>>

\* run(2) and run(3): arm and disarm the monitor.
RunArm ==
    /\ CanCommand
    /\ \E on \in BOOLEAN :
         m_b_filemon_timer_active' =
             activate_monitor(m_b_filemon_timer_active, on).new
    /\ hist' = Dirty
    /\ UNCHANGED <<world, configured, fs, man, m_scripts, selected_script, opt_change_interval,
                   opt_exec_unload_func, opt_with_undo, reg_selected, stack,
                   pending, timer_ret, crashed>>

\* run(1): execute_last_selected_script(), without undo.
RunLast ==
    /\ CanCommand
    /\ has_selected_script(selected_script)
    /\ stack' = <<ExecFrame(0)>>
    /\ hist' = Dirty
    /\ UNCHANGED <<world, configured, fs, man, m_scripts, selected_script, m_b_filemon_timer_active,
                   opt_change_interval, opt_exec_unload_func, opt_with_undo,
                   reg_selected, pending, timer_ret, crashed>>

\* The action "Execute selected script": execute_script_at(n).
ExecuteScriptAt ==
    /\ CanCommand
    /\ \E n \in 1..Len(m_scripts) :
         IF opt_with_undo
         THEN /\ pending < MaxPending
              /\ pending' = pending + 1
              /\ stack' = stack
         ELSE /\ pending' = pending
              /\ stack' = <<ExecFrame(n)>>
    /\ hist' = Dirty
    /\ UNCHANGED <<world, configured, fs, man, m_scripts, selected_script, m_b_filemon_timer_active,
                   opt_change_interval, opt_exec_unload_func, opt_with_undo,
                   reg_selected, timer_ret, crashed>>

\* The host runs a queued ACTION_EXECUTE_SCRIPT_WITH_UNDO_ID: its handler
\* calls execute_script_sync(&selected_script) if a script is selected.
HostRunsAction ==
    /\ CanCommand
    /\ pending > 0
    /\ pending' = pending - 1
    /\ stack' = IF has_selected_script(selected_script) THEN <<ExecFrame(0)>>
                ELSE stack
    /\ UNCHANGED <<world, configured, fs, man, m_scripts, selected_script, m_b_filemon_timer_active,
                   opt_change_interval, opt_exec_unload_func, opt_with_undo,
                   reg_selected, timer_ret, crashed, hist>>

\* The action "Options": config_dialog.  saveload_options(false) loads every
\* option from the registry, the name of the selected script too; the user
\* accepts the dialog with an interval and check boxes, which are stored and
\* saved with the rest, or cancels it.
ConfigDialog ==
    /\ CanCommand
    /\ world.dialog # {}
    /\ \E r \in world.reg, v \in world.dialog, accept \in BOOLEAN,
          undo \in world.undo, unload \in world.unload :
         /\ configured' = IF accept THEN v ELSE r
         /\ opt_change_interval' =
               normalize_filemon_interval(ToInt(IF accept THEN v ELSE r))
         /\ opt_with_undo' = undo
         /\ opt_exec_unload_func' = unload
    /\ selected_script' = [selected_script EXCEPT !.file_path = reg_selected]
    /\ hist' = Dirty
    /\ UNCHANGED <<world, fs, man, m_scripts, m_b_filemon_timer_active,
                   reg_selected, stack, pending, timer_ret, crashed>>

\* ------------------------------------------------------------ other processes
\* A file is saved (created or rewritten) with a new mtime.
EnvWrite ==
    /\ ~crashed
    /\ \E p \in world.mut \ ManifestFiles, t \in 1..MaxTime :
         /\ t # fs[p]
         /\ fs' = [fs EXCEPT ![p] = t]
    /\ hist' = Dirty
    /\ UNCHANGED <<world, configured, man, m_scripts, selected_script, m_b_filemon_timer_active,
                   opt_change_interval, opt_exec_unload_func, opt_with_undo,
                   reg_selected, stack, pending, timer_ret, crashed>>

\* A manifest is saved with some text.
EnvWriteManifest ==
    /\ ~crashed
    /\ \E m \in world.mut \cap ManifestFiles, t \in 1..MaxTime, c \in world.texts :
         /\ t # fs[m]
         /\ fs' = [fs EXCEPT ![m] = t]
         /\ man' = [man EXCEPT ![m] = c]
    /\ hist' = Dirty
    /\ UNCHANGED <<world, configured, m_scripts, selected_script, m_b_filemon_timer_active,
                   opt_change_interval, opt_exec_unload_func, opt_with_undo,
                   reg_selected, stack, pending, timer_ret, crashed>>

\* A file is deleted.
EnvRemove ==
    /\ ~crashed
    /\ \E p \in world.mut :
         /\ fs[p] # 0
         /\ fs' = [fs EXCEPT ![p] = 0]
         /\ man' = IF p \in ManifestFiles THEN [man EXCEPT ![p] = 1] ELSE man
    /\ hist' = Dirty
    /\ UNCHANGED <<world, configured, m_scripts, selected_script, m_b_filemon_timer_active,
                   opt_change_interval, opt_exec_unload_func, opt_with_undo,
                   reg_selected, stack, pending, timer_ret, crashed>>

\* ------------------------------------------------------------ specification
\* After init(): the plugin object is constructed and start_monitor has run.
\* b_keep_trigger_file has no initializer (either value); the options come
\* from the registry.
InitOver(W) ==
    /\ world \in W
    /\ fs = world.fs0
    /\ man = world.man0
    /\ m_scripts = <<>>
    /\ \E b \in world.keep :
         selected_script = [EmptyScript EXCEPT !.b_keep_trigger_file = b]
    /\ m_b_filemon_timer_active = FALSE
    /\ configured \in world.reg
    /\ opt_change_interval = normalize_filemon_interval(ToInt(configured))
    /\ opt_exec_unload_func \in world.unload
    /\ opt_with_undo \in world.undo
    /\ reg_selected = NoPath
    /\ stack = <<>>
    /\ pending = 0
    /\ timer_ret = opt_change_interval
    /\ crashed = FALSE
    /\ hist = Dirty

Next ==
    \/ TickIdle \/ TickNoTrigger \/ TickReparse \/ TickLoop
    \/ TickDep \/ EvalFails \/ EvalSucceeds \/ TickMain \/ TickReturn
    \/ ExecBegin \/ UnloadReturn \/ CompileReturn \/ MainReturn
    \/ Show \/ Enter \/ EnterReturn \/ Deactivate \/ RunArm \/ RunLast
    \/ ExecuteScriptAt \/ HostRunsAction
    \/ EnvWrite \/ EnvWriteManifest \/ EnvRemove

Init == InitOver(Scenarios)

Spec == Init /\ [][Next]_vars

\* The same program in the scenarios of ScenariosFull, with the options
\* dialog.
InitFull == InitOver(ScenariosFull)
NextFull == Next \/ ConfigDialog
SpecFull == InitFull /\ [][NextFull]_vars

\* ------------------------------------------------------------ expand_string
\* The strings handed to expand_string, as characters.
ExpandInputs ==
    { <<>>,
      <<"a", "b", "c">>,
      <<"a", "$", "b">>,
      <<"$">>,
      <<"$", "$">>,
      <<"$", "x", "$">>,
      <<"a", "$", "x", "$", "b">>,
      <<"$", "b", "a", "s", "e", "n", "a", "m", "e", "$">>,
      <<"$", "b", "a", "s", "e", "n", "a", "m", "e", "x", "$">>,
      <<"$", "p", "k", "g", "b", "a", "s", "e", "$">>,
      <<"$", "p", "k", "g", "b", "a", "s", "e", "m", "e", "n", "t", "$">>,
      <<"$", "p", "k", "g", "m", "o", "d", "n", "a", "m", "e", "$">>,
      <<"$", "e", "n", "v", ":", "X", "$">>,
      <<"$", "e", "n", "v", ":", "U", "$">>,
      <<"$", "x", "$", "$", "y", "$">>,
      <<"$", "a", "$", "b", "$">>,
      <<"r", "(", "$", "b", "a", "s", "e", "n", "a", "m", "e", "$", ")">> }
\* An expansion: the input, the context's script_file and pkg_base, the
\* pkg_base of the dep has_dep finds for script_file, and the value of the
\* environment variable X if it is set (U never is).
Expansions ==
    [name : {"expand"}, s : ExpandInputs,
     script_file : {<<"/", "t", "/", "p", "k", "g", "/", "s", "u", "b", "/", "m", ".", "p", "y">>,
                    <<"/", "t", "/", "o", "/", "m", ".", "p", "y">>},
     pkg_base : {<<"/", "t", "/", "p", "k", "g">>},
     env : {<<>>, <<<<"$", "b", "a", "s", "e", "n", "a", "m", "e", "$">>>>}]

\* Where character c first stands in cs at or after place i; 0 if nowhere.
Find(cs, c, i) ==
    IF \E j \in i..Len(cs) : cs[j] = c
    THEN CHOOSE j \in i..Len(cs) : cs[j] = c /\ \A k \in i..(j - 1) : cs[k] # c
    ELSE 0
\* Where c stands last in cs; 0 if nowhere.
FindLast(cs, c) ==
    IF \E j \in 1..Len(cs) : cs[j] = c
    THEN CHOOSE j \in 1..Len(cs) : cs[j] = c /\ \A k \in (j + 1)..Len(cs) : cs[k] # c
    ELSE 0
\* strncmp(cs, key, strlen(key)) == 0
BeginsWith(cs, key) == Len(cs) >= Len(key) /\ SubSeq(cs, 1, Len(key)) = key

\* get_basename_and_ext: the file name without directory and extension.
Basename(path) ==
    LET name == SubSeq(path, FindLast(path, "/") + 1, Len(path))
        dot  == FindLast(name, ".")
    IN  IF dot = 0 THEN name ELSE SubSeq(name, 1, dot - 1)

\* $pkgmodname$: script_file below pkg_base, separators turned to dots, cut
\* at the last dot; empty if script_file does not begin with pkg_base.
PkgModName(script_file, pkg_base) ==
    IF ~BeginsWith(script_file, pkg_base) THEN <<>>
    ELSE LET s  == SubSeq(script_file, Len(pkg_base) + 2, Len(script_file))
             s1 == [i \in 1..Len(s) |-> IF s[i] = "/" THEN "." ELSE s[i]]
             idx == FindLast(s1, ".")
         IN  IF idx = 0 THEN s1 ELSE SubSeq(s1, 1, idx - 1)

\* Mutant: a token that is none of the names is left as it stands.
Replacement_unknown_untouched(match1, x) ==
    IF BeginsWith(match1, <<"p", "k", "g", "m", "o", "d", "n", "a", "m", "e">>)
    THEN PkgModName(x.script_file, x.pkg_base)
    ELSE IF BeginsWith(match1, <<"p", "k", "g", "b", "a", "s", "e">>)
    THEN x.pkg_base
    ELSE IF BeginsWith(match1, <<"b", "a", "s", "e", "n", "a", "m", "e">>)
    THEN Basename(x.script_file)
    ELSE IF BeginsWith(match1, <<"e", "n", "v", ":">>)
            /\ SubSeq(match1, 5, Len(match1)) = <<"X">> /\ x.env # <<>>
    THEN x.env[1]
    ELSE <<"$">> \o match1 \o <<"$">>

\* The lambda of expand_string: what stands for the match with inner text
\* match1.  The tests are strncmp over the length of each name.
Replacement(match1, x) ==
    IF BeginsWith(match1, <<"p", "k", "g", "m", "o", "d", "n", "a", "m", "e">>)
    THEN PkgModName(x.script_file, x.pkg_base)
    ELSE IF BeginsWith(match1, <<"p", "k", "g", "b", "a", "s", "e">>)
    THEN x.pkg_base
    ELSE IF BeginsWith(match1, <<"b", "a", "s", "e", "n", "a", "m", "e">>)
    THEN Basename(x.script_file)
    ELSE IF BeginsWith(match1, <<"e", "n", "v", ":">>)
            /\ SubSeq(match1, 5, Len(match1)) = <<"X">> /\ x.env # <<>>
    THEN x.env[1]
    ELSE match1

\* RE_EXPANDER, \$(.+?)\$, searched in cs: the leftmost match, from its
\* first $ to the nearest $ with at least one character between.
NextMatch(cs) ==
    LET p == Find(cs, "$", 1)
        q == IF p = 0 THEN 0 ELSE Find(cs, "$", p + 2)
    IN  [found |-> q # 0, from |-> p, to |-> q]

\* std::regex_replace at work on world.s: the frame holds the input not
\* yet searched (rest) and the output so far (out).  One match is replaced:
\* what stands before it is copied, the lambda's answer appended, and the
\* search goes on behind the match.
ExpandMatch ==
    /\ stack # <<>> /\ Top.kind = "expand" /\ Top.pc = "search"
    /\ LET m == NextMatch(Top.rest) IN
         /\ m.found
         /\ stack' = <<[Top EXCEPT
               !.out  = @ \o SubSeq(Top.rest, 1, m.from - 1)
                          \o Replacement(SubSeq(Top.rest, m.from + 1, m.to - 1), world),
               !.rest = SubSeq(@, m.to + 1, Len(@))]>>
    /\ UNCHANGED <<world, configured, fs, man, m_scripts, selected_script,
                   m_b_filemon_timer_active, opt_change_interval,
                   opt_exec_unload_func, opt_with_undo, reg_selected, pending,
                   timer_ret, crashed, hist>>

\* No further match: the rest is copied and expand_string returns.
ExpandDone ==
    /\ stack # <<>> /\ Top.kind = "expand" /\ Top.pc = "search"
    /\ ~NextMatch(Top.rest).found
    /\ stack' = <<[Top EXCEPT !.out = @ \o Top.rest, !.rest = <<>>, !.pc = "done"]>>
    /\ UNCHANGED <<world, configured, fs, man, m_scripts, selected_script,
                   m_b_filemon_timer_active, opt_change_interval,
                   opt_exec_unload_func, opt_with_undo, reg_selected, pending,
                   timer_ret, crashed, hist>>

\* expand_string has been called on one of ExpandInputs.
InitExpand ==
    /\ world \in Expansions
    /\ stack = <<[kind |-> "expand", pc |-> "search", rest |-> world.s, out |-> <<>>]>>
    /\ fs = Present({}) /\ man = [m \in ManifestFiles |-> 1]
    /\ m_scripts = <<>> /\ selected_script = EmptyScript
    /\ m_b_filemon_timer_active = FALSE
    /\ configured = Wide(0, DefaultInterval)
    /\ opt_change_interval = DefaultInterval
    /\ opt_exec_unload_func = FALSE /\ opt_with_undo = FALSE
    /\ reg_selected = NoPath /\ pending = 0
    /\ timer_ret = DefaultInterval /\ crashed = FALSE /\ hist = Dirty
NextExpand == ExpandMatch \/ ExpandDone
SpecExpand == InitExpand /\ [][NextExpand]_vars

\* ------------------------------------------------------------------ claims
ExecFrames == {i \in 1..Len(stack) : stack[i].kind = "exec"}
ExecRunning == \E i \in ExecFrames : stack[i].pc \in EnginePcs
TickStep == TickIdle \/ TickNoTrigger \/ TickReparse \/ TickLoop

\* C1: at most one execute_script_sync is on the stack; while its engine
\* call (unload hook, compile_file, main) is in flight the monitor flag is
\* false, and a timer callback entered in that window returns
\* opt_change_interval at step 0: it probes and stores no mtime, deletes no
\* file, re-parses nothing, enters no loop, starts or requests no execution.
C1_OneExecution ==
    /\ [](Cardinality(ExecFrames) <= 1)
    /\ [](ExecRunning => ~m_b_filemon_timer_active)
    /\ [][(ExecRunning /\ TickStep) =>
            /\ timer_ret' = opt_change_interval
            /\ stack' = Ticked(stack)
            /\ UNCHANGED <<fs, man, m_scripts, selected_script,
                           m_b_filemon_timer_active, pending>>]_vars

\* A timer callback ran while the active script, armed before the call, was
\* being compiled.
C1_Witness ==
    /\ stack # <<>> /\ Top.kind = "exec" /\ Top.pc = "compile"
    /\ Top.ticks /\ Top.pre /\ has_selected_script(selected_script)

\* C2: execute_script_sync leaves the armed flag as it found it on each of
\* its exits (file not found, no engine, compile failure, main failure,
\* success), and the flag is false from its first engine call to its return.
ExecReturns == stack # <<>> /\ Top.kind = "exec" /\ Len(stack') < Len(stack)
C2_FlagRestored ==
    /\ [](\A i \in ExecFrames : stack[i].pc # "start" => ~m_b_filemon_timer_active)
    /\ [][ExecReturns =>
            m_b_filemon_timer_active' =
               IF Top.pc = "start" THEN m_b_filemon_timer_active ELSE Top.pre]_vars

\* execute_script_sync, called by an armed tick, has failed and returned
\* into the tick; the monitor is armed again.
C2_Witness ==
    /\ stack # <<>> /\ Top.kind = "tick" /\ Top.pc = "ret" /\ ~Top.ok
    /\ m_b_filemon_timer_active

\* The tick runs the executor on the active script: execute_script_sync is
\* entered in the tick, or with the undoable option the host is asked once
\* for the action that enters it.
RunsExecutor ==
    IF opt_with_undo
    THEN pending' = pending + 1 /\ stack' = Pop(stack)
    ELSE /\ pending' = pending
         /\ Pop(stack') = SetTop(stack, [Top EXCEPT !.pc = "exec"])
         /\ stack'[Len(stack')].kind = "exec" /\ stack'[Len(stack')].target = 0
\* The tick returns without running the executor.
RunsNothing == pending' = pending /\ stack' = Pop(stack)

DirectPlain == ~trigger_based(selected_script) /\ selected_script.dep_indices = <<>>
MainModified ==
    /\ FileFound(fs, selected_script.file_path)
    /\ fs[selected_script.file_path] # selected_script.modified_time

\* C3: direct mode, armed, no manifest.  The tick that finds the main
\* script's mtime changed stores the new mtime and runs the executor on the
\* main script exactly once (when the executor returns the tick returns); a
\* tick that follows a tick that ran the executor, with no file changed and
\* no command given since that tick began, does not run it.
C3_DirectChange ==
    /\ [][(TickMain /\ Top.top /\ DirectPlain /\ MainModified) =>
            /\ selected_script'.modified_time = fs[selected_script.file_path]
            /\ RunsExecutor]_vars
    /\ [][(stack # <<>> /\ Top.kind = "tick" /\ Top.pc = "ret") =>
            stack' \in {stack, Pop(stack)} /\ pending' = pending]_vars
    /\ [][(TickMain /\ Top.top /\ DirectPlain /\ hist # Dirty
            /\ Top.prev.o \in {"exec", "request"}) =>
            RunsNothing]_vars

\* The tick after an executing tick, nothing changed in between, is about to
\* probe the main script.
C3_Witness ==
    /\ Len(stack) = 1 /\ Top.kind = "tick" /\ Top.pc = "deps" /\ Top.top
    /\ DirectPlain /\ hist # Dirty /\ Top.prev.o \in {"exec", "request"}
    /\ selected_script.modified_time > 1

\* Dep d is modified and has a reload directive.
NeedsReload(d) ==
    /\ FileFound(fs, d)
    /\ fs[d] # selected_script.dep_scripts[d].modified_time
    /\ selected_script.dep_scripts[d].reload_cmd # ""
\* execute_reload_directive runs on d: eval_snippet is entered, or d's
\* extension has no engine and the tick is aborted.
ReloadRuns(d) ==
    \/ stack' = SetTop(stack, [Top EXCEPT !.pc = "eval", !.cur = d, !.changed = TRUE])
    \/ stack' = Pop(stack) /\ timer_ret' = opt_change_interval /\ pending' = pending
\* The step enters the loop over the deps of a new tick.
EntersLoop ==
    /\ Len(stack') = Len(stack) + 1
    /\ stack'[Len(stack')].kind = "tick"

\* C4: a tick that is not a trigger firing and finds the manifests
\* unchanged.  (a) It probes the manifests before any dep: the step that
\* enters the loop has stored the manifests' mtimes and touched no dep's.
\* (b) Each dep its loop finds modified with a reload directive has the
\* directive run at once, and eval_snippet is entered for such deps only.
\* (c) When the loop is over, some dep was modified and the main script
\* exists, the tick runs the executor on the main script, modified or not.
\* (d) Once the tick is in the executor no dep is left to reload, and after
\* the executor the tick returns.
C4_ReloadThenMain ==
    /\ [][EntersLoop =>
            /\ IdxProbe.st # "modified"
            /\ selected_script'.dep_indices = IdxProbe.idx
            /\ \A d \in DOMAIN selected_script'.dep_scripts :
                  selected_script'.dep_scripts[d] = selected_script.dep_scripts[d]]_vars
    /\ [][(TickDep /\ ~Top.trig) =>
            /\ \A d \in Top.todo :
                  (NeedsReload(d) /\ selected_script'.dep_scripts[d].modified_time = fs[d])
                     => ReloadRuns(d)
            /\ (Len(stack') = Len(stack) /\ stack'[Len(stack')].pc = "eval")
                  => NeedsReload(stack'[Len(stack')].cur)]_vars
    /\ [][(TickMain /\ ~Top.trig /\ Top.changed
            /\ FileFound(fs, selected_script.file_path)) => RunsExecutor]_vars
    /\ [](\A i \in 1..Len(stack) :
             (stack[i].kind = "tick" /\ stack[i].pc \in {"exec", "ret"})
                => stack[i].todo = {} /\ stack[i].cur = NoPath)

\* The loop reloaded every dep it found modified, the main script is
\* unmodified, and the tick has entered execute_script_sync for it.
C4_Witness ==
    /\ Len(stack) = 2 /\ Top.kind = "exec" /\ Top.pc = "start"
    /\ stack[1].kind = "tick" /\ stack[1].changed /\ ~stack[1].trig
    /\ ~stack[1].inval /\ ~stack[1].ticks
    /\ selected_script.modified_time = fs[selected_script.file_path]
    /\ Cardinality(DOMAIN selected_script.dep_scripts) = 2
    /\ \A d \in DOMAIN selected_script.dep_scripts :
          /\ selected_script.dep_scripts[d].reload_cmd # ""
          /\ selected_script.dep_scripts[d].modified_time = fs[d]

\* The tick is aborted: it returns opt_change_interval, neither probes nor
\* executes the main script, leaves the flag, the files and the active
\* script's path, main mtime, manifests and set of deps as they are; a tick
\* that was not re-entered leaves the monitor armed on its script.
AbortsTick ==
    /\ stack' = Pop(stack)
    /\ timer_ret' = opt_change_interval
    /\ UNCHANGED <<pending, fs, m_b_filemon_timer_active, m_scripts>>
    /\ selected_script'.file_path = selected_script.file_path
    /\ selected_script'.modified_time = selected_script.modified_time
    /\ selected_script'.dep_indices = selected_script.dep_indices
    /\ selected_script'.trigger_file = selected_script.trigger_file
    /\ DOMAIN selected_script'.dep_scripts = DOMAIN selected_script.dep_scripts
    /\ ~Top.ticks => m_b_filemon_timer_active' /\ has_selected_script(selected_script')

\* C5: when a modified dep's reload fails, by an evaluation error or for
\* want of an engine for the dep's extension, the tick is aborted as
\* AbortsTick says.
C5_ReloadFailureAborts ==
    /\ [][EvalFails => AbortsTick /\ selected_script' = selected_script]_vars
    /\ [][(TickDep /\ Len(stack') < Len(stack)) => AbortsTick]_vars

\* A tick has just been aborted by a failed reload while the main script
\* was modified too: its new mtime has not been taken, the monitor is armed.
C5_Witness ==
    /\ Idle /\ hist.o = "reloadfail" /\ MainModified
    /\ m_b_filemon_timer_active /\ timer_ret = opt_change_interval
    /\ pending = 0

\* The running tick is the first after a tick that a failed reload of
\* prev.d aborted, and no file changed and no command was given since that
\* tick began.
AfterReloadFailure ==
    /\ stack # <<>> /\ Top.kind = "tick" /\ Top.top
    /\ Top.prev.o = "reloadfail" /\ hist # Dirty

ListedDeps(m) ==
    {ManifestText(man, m)[i].v : i \in {j \in 1..Len(ManifestText(man, m)) :
        /\ ManifestText(man, m)[j].k = "dep"
        /\ FileFound(fs, ManifestText(man, m)[j].v)}}

\* The running tick is the first after a direct-mode tick that re-parsed
\* the manifests, and no file changed and no command was given since.
AfterReparse ==
    /\ stack # <<>> /\ Top.kind = "tick" /\ Top.top
    /\ Top.prev.o = "reparse" /\ hist # Dirty

\* C7 as amended.  (a) A direct-mode tick that sees a manifest modified
\* re-parses it (the manifest's current mtime and the existing deps it
\* lists are stored), sets the mtime of the main script and of every dep to
\* 0, enters neither an evaluation nor an execution and returns 1.  (b) The
\* timer callback returns 1 only from a tick that saw a manifest modified.
\* (c) With the files unchanged the following tick does not see the
\* manifest modified, and if it is not held back by a trigger file the
\* manifest now names and comes to probe the main script (no reload failed)
\* and finds it, it runs the executor on it.
C7_Reparse ==
    /\ [][(TickStep /\ Armed /\ ~trigger_based(selected_script)
            /\ IdxProbe.st = "modified") =>
            /\ timer_ret' = 1
            /\ selected_script'.modified_time = 0
            /\ \A d \in DOMAIN selected_script'.dep_scripts :
                  selected_script'.dep_scripts[d].modified_time = 0
            /\ selected_script'.dep_indices = <<FileInfo(Manifest, fs[Manifest])>>
            /\ DOMAIN selected_script'.dep_scripts = ListedDeps(Manifest)
            /\ selected_script'.file_path = selected_script.file_path
            /\ Len(stack') = Len(stack)
            /\ UNCHANGED <<fs, pending, m_b_filemon_timer_active>>]_vars
    /\ [][(timer_ret' = 1 /\ timer_ret # 1) =>
            TickStep /\ Armed /\ IdxProbe.st = "modified"]_vars
    /\ []((Idle /\ Armed /\ hist.o = "reparse") => IdxProbe.st # "modified")
    /\ [][(AfterReparse /\ TickMain /\ FileFound(fs, selected_script.file_path))
            => RunsExecutor]_vars

\* The tick that follows a re-parse has reloaded the dep and entered
\* execute_script_sync for the main script.
C7_Witness ==
    /\ Len(stack) = 2 /\ Top.kind = "exec"
    /\ stack[1].kind = "tick" /\ stack[1].top /\ stack[1].prev.o = "reparse"
    /\ hist # Dirty /\ timer_ret = 1
    /\ \E d \in DOMAIN selected_script.dep_scripts :
          selected_script.dep_scripts[d].reload_cmd # ""

\* C7 as stated, its last part: with the files unchanged the tick that
\* follows a re-parse gets to the main script and runs the executor on it.
C7_Original ==
    /\ [][(Idle /\ Armed /\ hist.o = "reparse" /\ TickStep) => EntersLoop]_vars
    /\ [][(AfterReparse /\ Len(stack') < Len(stack)) =>
            Top.pc = "ret" \/ (opt_with_undo /\ pending' = pending + 1)]_vars

\* The active script has a trigger file; the file as the tick finds it.
TrigPath == selected_script.trigger_file.file_path
TrigMode == TrigPath # NoPath
TrigSeenModified ==
    FileFound(fs, TrigPath) /\ fs[TrigPath] # selected_script.trigger_file.modified_time

\* C8: an armed tick in trigger mode that does not see the trigger file
\* modified returns opt_change_interval at once: but for the trigger's
\* stored mtime (0 when the file is absent) the active script is as before,
\* so no manifest, dep or main script was probed; no evaluation or execution
\* is entered or requested and no file is touched, whatever else changed.
C8_NoTriggerNoWork ==
    [][(TickStep /\ Armed /\ TrigMode /\ ~TrigSeenModified) =>
        /\ timer_ret' = opt_change_interval
        /\ stack' = Ticked(stack)
        /\ selected_script' =
              [selected_script EXCEPT !.trigger_file.modified_time =
                  IF FileFound(fs, TrigPath) THEN @ ELSE 0]
        /\ UNCHANGED <<fs, pending, m_b_filemon_timer_active, m_scripts>>]_vars

\* A tick in trigger mode has just returned without the trigger although
\* the manifest and the main script's dep are modified.
C8_Witness ==
    /\ Idle /\ Armed /\ TrigMode /\ hist.o = "notrigger"
    /\ IdxProbe.st = "modified"
    /\ \E d \in DOMAIN selected_script.dep_scripts : NeedsReload(d)

\* C9: in trigger mode every tick that sees the trigger file modified
\* leads to an execution of the main script if the main script exists and
\* no reload fails: the tick itself runs the executor when it comes to the
\* main script, and when it re-parsed a modified manifest instead the
\* follow-up tick goes down the ladder again to the main script.
C9_TriggerExecutes ==
    /\ [][(TickMain /\ Top.trig /\ FileFound(fs, selected_script.file_path))
            => RunsExecutor]_vars
    /\ [][(Idle /\ Armed /\ TrigMode /\ hist.o = "reparse_trig" /\ TickStep
            /\ FileFound(fs, selected_script.file_path)) => EntersLoop]_vars

\* The tick is a firing of the trigger.
Fires == (TickReparse \/ TickLoop) /\ TrigMode
KeepsTrigger == selected_script.b_keep_trigger_file

\* C10: a firing needs the trigger file to exist with an mtime other than
\* the stored one.  With b_keep_trigger_file false the firing tick deletes
\* the file, which is still absent when the tick has returned if nobody
\* re-created it, so that the next firing needs it re-created.  With the
\* flag true no tick changes a file, and the firing stores the file's mtime.
C10_TriggerFile ==
    /\ []((Idle /\ TrigMode /\ ~KeepsTrigger
            /\ hist.o \in {"exec", "request", "reloadfail", "reparse_trig"})
             => ~FileFound(fs, TrigPath))
    /\ [][/\ Fires => TrigSeenModified
          /\ (Fires /\ ~KeepsTrigger) => fs' = [fs EXCEPT ![TrigPath] = 0]
          /\ (KeepsTrigger /\ fs' # fs)
                => EnvRemove \/ EnvWrite \/ EnvWriteManifest
          /\ (Fires /\ KeepsTrigger /\ Len(stack') > Len(stack))
                => selected_script'.trigger_file.modified_time = fs[TrigPath]]_vars

\* The manifest says /keep: the trigger fired, the main script was executed,
\* the trigger file is still there and its mtime is the stored one.
C10_Witness ==
    /\ Idle /\ Armed /\ TrigMode /\ KeepsTrigger /\ world.name = "trigger keep"
    /\ hist.o = "exec"
    /\ FileFound(fs, TrigPath) /\ ~TrigSeenModified

\* C11: direct mode.  The tick that comes to probe the main script and
\* finds no such file clears the active script (path, mtime, deps,
\* manifests, trigger file, keep flag), disarms the monitor, returns
\* opt_change_interval and neither enters nor requests an execution.  From
\* then on every tick entered while no script is active changes nothing;
\* and no step of the timer callback or of the executor makes a script
\* active: the path is set again only by a user command, the chooser's
\* enter or the options dialog re-loading the name kept in the registry.
C11_MainMissing ==
    /\ [][(TickMain /\ ~TrigMode /\ ~FileFound(fs, selected_script.file_path)) =>
            /\ selected_script' = EmptyScript
            /\ ~m_b_filemon_timer_active'
            /\ Len(stack') = Len(stack) - 1
            /\ timer_ret' = opt_change_interval
            /\ UNCHANGED <<fs, man, m_scripts, pending, reg_selected>>]_vars
    /\ [][(TickStep /\ selected_script.file_path = NoPath) =>
            /\ stack' = Ticked(stack)
            /\ timer_ret' = opt_change_interval
            /\ UNCHANGED <<fs, man, m_scripts, selected_script, pending,
                           m_b_filemon_timer_active, reg_selected,
                           opt_change_interval, crashed>>]_vars
    /\ [][(selected_script.file_path = NoPath
            /\ selected_script'.file_path # NoPath) => Enter \/ ConfigDialog]_vars

\* The main script, which had a dep and a manifest and had been executed,
\* was deleted; the next tick has cleared the active script.
C11_Witness ==
    /\ Idle /\ hist.o = "cleared" /\ world.name = "two rows"
    /\ ~FileFound(fs, MainScript) /\ reg_selected = MainScript
    /\ selected_script = EmptyScript /\ ~m_b_filemon_timer_active

\* C12: in every state of the running program the deps of the active
\* script have no key equal to the main script's path, whatever the
\* manifests list (the main script itself included).
C12_NoMainInDeps ==
    ~crashed => selected_script.file_path \notin DOMAIN selected_script.dep_scripts

\* The step is a return of the timer callback to the host.
TickReturns ==
    /\ ~crashed'
    /\ \/ TickStep /\ Len(stack') = Len(stack)
       \/ stack # <<>> /\ Top.kind = "tick" /\ Len(stack') < Len(stack)

\* C13: from start_monitor on, opt_change_interval is max(300, v) for the
\* value v the registry or the options dialog supplied last, so it is at
\* least 300; and the timer callback returns opt_change_interval or 1.
C13_Interval ==
    /\ [](Wide(0, opt_change_interval) = WideMax(MinInterval, configured))
    /\ [](opt_change_interval >= MinInterval)
    /\ [][TickReturns => timer_ret' \in {opt_change_interval, 1}]_vars

\* What C14 compares of two parses: the deps (keys, mtimes, reload_cmd and
\* pkg_base) and the list of manifests (paths in order, mtimes).
SameDeps(a, b) == a.dep_scripts = b.dep_scripts /\ a.dep_indices = b.dep_indices

\* set_active on script p (mtime t in its row), run twice from sel.
SetActiveTwice(sel, p, t) ==
    LET once == set_selected_script(fs, man, sel, p, t)
    IN  SameDeps(once, set_selected_script(fs, man, once, p, t))

\* C14: with the files as they are, set_active run twice on the same script
\* gives the same deps and the same list of manifests as run once, whatever
\* the active script held before: for the active script and for every row
\* of the chooser in every state, and for the script the chooser's enter
\* has just made active (a second set_active on its row gives what the
\* first has left).
C14_ParseTwice ==
    /\ [](/\ SetActiveTwice(selected_script, selected_script.file_path,
                             selected_script.modified_time)
          /\ \A n \in 1..Len(m_scripts) :
                SetActiveTwice(selected_script, m_scripts[n].file_path,
                               m_scripts[n].modified_time))
    /\ [][(Enter /\ ~crashed') =>
            SameDeps(selected_script',
                     set_selected_script(fs, man, selected_script',
                                         selected_script'.file_path,
                                         selected_script'.modified_time))]_vars

\* The chooser's enter has made active, not for the first time, a script
\* with a dep that has a manifest and a dep of its own.
C14_Witness ==
    /\ Len(stack) = 2 /\ stack[1].kind = "enter" /\ Top.pc = "start"
    /\ reg_selected = selected_script.file_path
    /\ DOMAIN selected_script.dep_scripts = {Dep1, Dep2}
    /\ Len(selected_script.dep_indices) = 2

\* The step runs the parser: the chooser's enter or a tick's re-parse.
Parses == Enter \/ TickReparse

\* C15: set_active comes to its end on every filesystem, manifests that
\* form a cycle included.  A parse that ends by itself never has a
\* manifest open twice, so at no time more manifests open than there are
\* manifest files (MaxParseDepth is their number): no parse comes to need
\* more than the process has and none kills the process.
C15_ParseTerminates ==
    [][Parses => /\ ~crashed'
                 /\ ~ParseExhausts(fs', man, selected_script'.file_path)]_vars

\* The lines of kind k in the manifest of the main script.
TopLines(k) ==
    LET m == IF FileFound(fs', DepsName(selected_script'.file_path))
             THEN DepsName(selected_script'.file_path)
             ELSE ProjName(selected_script'.file_path)
        text == IF FileFound(fs', m) THEN ManifestText(man, m) ELSE <<>>
    IN  {text[i] : i \in {j \in 1..Len(text) : text[j].k = k}}

\* The manifests the parse went through and the deps they list that exist.
EnteredDeps ==
    UNION {ListedDeps(selected_script'.dep_indices[i].file_path) :
              i \in 1..Len(selected_script'.dep_indices)}

\* What a parse takes from the manifests of deps.
ChildDirectivesIgnored ==
    /\ \A d \in DOMAIN selected_script'.dep_scripts :
          /\ selected_script'.dep_scripts[d].reload_cmd
                \in {""} \cup {l.v : l \in TopLines("reload")}
          /\ selected_script'.dep_scripts[d].pkg_base
                \in {""} \cup {l.v : l \in TopLines("pkgbase")}
    /\ selected_script'.trigger_file.file_path
          \in {selected_script.trigger_file.file_path}
              \cup {l.v : l \in TopLines("trigger")}
ChildKeepIgnored ==
    (selected_script'.b_keep_trigger_file # selected_script.b_keep_trigger_file)
       => \E l \in TopLines("trigger") : l.keep
ChildDepsAdded == EnteredDeps \subseteq DOMAIN selected_script'.dep_scripts

\* C16: a parse takes from the manifest of a dep its dependency lines
\* only: the reload_cmd and pkg_base recorded for the deps, the trigger
\* file and the keep flag are what the main script's manifest says (or
\* what they were), whatever /pkgbase, /reload, /triggerfile and
\* /triggerfile /keep lines the manifests of deps hold.
C16_ChildDirectives ==
    [][(Parses /\ ~crashed') =>
         ChildDirectivesIgnored /\ ChildKeepIgnored /\ ChildDepsAdded]_vars

\* Every dep of sel exists in f and is recorded with its mtime there.
DepsFresh(f, sel) ==
    \A d \in DOMAIN sel.dep_scripts :
        FileFound(f, d) /\ sel.dep_scripts[d].modified_time = f[d]

\* What set_selected_script leaves when the tick's re-parse calls it,
\* before invalidate_all_scripts.
Reparsed ==
    set_selected_script(Step1Fs, man, [Step2Sel EXCEPT !.dep_scripts = NoDeps],
                        Step2Sel.file_path, Step2Sel.modified_time)

\* C17 as amended: when set_active returns, to the chooser's enter or to a
\* tick's re-parse, every dep is recorded with the current mtime of its
\* file.  The main script's mtime is not read from the file: after enter it
\* is the one its row took when the chooser list was built, after a
\* re-parse the one stored before (0 if the trigger file has just fired).
C17_MtimesAfterSetActive ==
    /\ [][(Enter /\ ~crashed') =>
            /\ DepsFresh(fs, selected_script')
            /\ \E n \in 1..Len(m_scripts) :
                  /\ selected_script'.file_path = m_scripts[n].file_path
                  /\ selected_script'.modified_time = m_scripts[n].modified_time]_vars
    /\ [][(TickReparse /\ ~crashed') =>
            /\ DepsFresh(fs', Reparsed)
            /\ Reparsed.modified_time =
                  IF TrigMode THEN 0 ELSE selected_script.modified_time]_vars

\* The main script was saved after the chooser list was built; enter has
\* made it active with the mtime of its row and the current one of its dep.
C17_Witness ==
    /\ Len(stack) = 2 /\ stack[1].kind = "enter" /\ Top.pc = "start"
    /\ FileFound(fs, selected_script.file_path)
    /\ selected_script.modified_time # fs[selected_script.file_path]
    /\ selected_script.dep_scripts # NoDeps /\ DepsFresh(fs, selected_script)

\* C17 as stated: when set_active returns, the main script's mtime and
\* every dep's are the current mtimes of their files.
C17_Original ==
    /\ [][(Enter /\ ~crashed') =>
            /\ DepsFresh(fs, selected_script')
            /\ selected_script'.modified_time =
                  FileTime(fs, selected_script'.file_path)]_vars
    /\ [][(TickReparse /\ ~crashed') =>
            /\ DepsFresh(fs', Reparsed)
            /\ Reparsed.modified_time = FileTime(fs', Reparsed.file_path)]_vars

\* The chooser's enter returns: at once when the execution is only
\* requested (undoable), else when execute_script_sync has returned.
EnterDone == (Enter /\ opt_with_undo /\ ~crashed') \/ EnterReturn
\* The row enter was called for.
EnteredRow ==
    IF stack = <<>> THEN {m_scripts[n].file_path : n \in 1..Len(m_scripts)}
    ELSE {m_scripts[Top.target].file_path}

FailedExecLast == hist.o = "exec" /\ hist.d # NoPath
\* The running tick is the first after such a tick.
AfterFailedExec ==
    /\ stack # <<>> /\ Top.kind = "tick" /\ Top.top
    /\ Top.prev.o = "exec" /\ Top.prev.d # NoPath /\ hist # Dirty
\* Nothing the monitor watches differs from what it has stored.
SeesNothingModified ==
    /\ ~MainModified
    /\ ~(TrigMode /\ TrigSeenModified)
    /\ IdxProbe.st # "modified"
    /\ \A d \in DOMAIN selected_script.dep_scripts :
          ~FileFound(fs, d) \/ fs[d] = selected_script.dep_scripts[d].modified_time

\* C19 as amended.  (a) execute_script_sync on the active script returns,
\* failed or not, with the active script as it was but for the main
\* script's mtime, which is the one the file had when the call began, and
\* with the monitor flag as it was before the call.  (b) After a tick whose
\* execution failed the monitor is armed on the same script and, the files
\* unchanged, sees nothing modified: the next tick re-parses nothing, runs
\* no reload and does not run the executor.  The script is executed again
\* by a tick only after its mtime, or that of a dep, a manifest or the
\* trigger file, has changed.
C19_FailedExecution ==
    /\ [][(ExecReturns /\ Top.target = 0) =>
            /\ selected_script' =
                  [selected_script EXCEPT !.modified_time =
                      IF Top.pc = "start" /\ FileFound(fs, selected_script.file_path)
                      THEN fs[selected_script.file_path] ELSE @]
            /\ m_b_filemon_timer_active' =
                  IF Top.pc = "start" THEN m_b_filemon_timer_active ELSE Top.pre]_vars
    /\ []((Idle /\ FailedExecLast) =>
             /\ Armed /\ selected_script.file_path = hist.d
             /\ SeesNothingModified)
    /\ [][(Idle /\ FailedExecLast /\ TickStep) =>
            /\ timer_ret' = opt_change_interval
            /\ UNCHANGED <<fs, pending>>
            /\ selected_script' = [selected_script EXCEPT
                                     !.trigger_file = selected_script'.trigger_file]]_vars
    /\ [](AfterFailedExec => ~Top.changed /\ Top.pc = "deps")
    /\ [][(AfterFailedExec /\ TickMain) => RunsNothing]_vars

\* A tick's execution of a script with a dep has failed; the next tick, the
\* files unchanged, has gone through the deps and comes to the main script.
C19_Witness ==
    /\ AfterFailedExec /\ Top.todo = {} /\ m_b_filemon_timer_active
    /\ selected_script.dep_scripts # NoDeps
    /\ selected_script.file_path = Top.prev.d

\* C19 as stated, its last part: after a failed execution a tick executes
\* the script again only after the script's mtime has changed.  Taken where
\* nobody writes the main script and the registry holds no name: the
\* execution that enter started has failed (undoable off, no options
\* dialog), so no tick may run the executor.
C19_Original ==
    [][(TickMain /\ ~opt_with_undo /\ world.dialog = {}
        /\ reg_selected = NoPath /\ has_selected_script(selected_script)
        /\ selected_script.file_path \notin world.mut) => RunsNothing]_vars

\* execute_script_sync itself moves on from the given place: a step of
\* the topmost call that is no timer callback run on top of it.
ExecStep(pc) ==
    /\ stack # <<>> /\ Top.kind = "exec" /\ Top.pc = pc
    /\ Len(stack') <= Len(stack)
    /\ stack' # stack /\ stack' # Ticked(stack)
ExecGoes(pc) == Len(stack') = Len(stack) /\ stack'[Len(stack)].pc = pc
ExecReturnsFalse ==
    /\ Len(stack') < Len(stack)
    /\ stack' # <<>> => ~stack'[Len(stack')].ok

DepTime(d) == selected_script.dep_scripts[d].modified_time
\* The loop's next dep is missing, whichever it is; or is a file again that
\* a tick has seen missing.
NextDepsGone == InLoop /\ Top.todo # {} /\ \A d \in Top.todo : ~FileFound(fs, d)
NextDepsBack ==
    /\ InLoop /\ Top.todo # {}
    /\ \A d \in Top.todo : FileFound(fs, d) /\ DepTime(d) = 0

\* C21: a dep whose file is gone stays in dep_scripts, with mtime 0 once the
\* loop has visited it; the visit sets no dep_script_changed, evaluates no
\* reload snippet and ends no tick, and a tick whose loop has set no
\* dep_script_changed and that finds the main script unmodified runs
\* nothing.  When the file is there again the loop's visit sees it modified:
\* it stores the file's mtime and either sets dep_script_changed, entering
\* eval_snippet if the dep has a reload directive, or ends the tick because
\* the reload has no engine; with dep_script_changed set the tick goes on
\* to run the executor on the main script, if that file exists.
C21_DepDisappears ==
    /\ [][(TickDep /\ NextDepsGone) =>
            /\ Len(stack') = Len(stack)
            /\ stack'[Len(stack)].pc = "deps"
            /\ stack'[Len(stack)].changed = Top.changed
            /\ DOMAIN selected_script'.dep_scripts = DOMAIN selected_script.dep_scripts
            /\ \E d \in Top.todo :
                 /\ stack'[Len(stack)].todo = Top.todo \ {d}
                 /\ selected_script'.dep_scripts[d].modified_time = 0
            /\ UNCHANGED <<timer_ret, pending>>]_vars
    /\ [][(TickMain /\ ~Top.changed /\ ~MainModified) => RunsNothing]_vars
    /\ [][(TickDep /\ NextDepsBack) =>
            \E d \in Top.todo :
              /\ selected_script'.dep_scripts[d].modified_time = fs[d]
              /\ IF Len(stack') < Len(stack)
                 THEN has_reload_directive(selected_script.dep_scripts[d])
                 ELSE /\ stack'[Len(stack)].changed
                      /\ stack'[Len(stack)].pc =
                            IF has_reload_directive(selected_script.dep_scripts[d])
                            THEN "eval" ELSE "deps"]_vars
    /\ [][(TickMain /\ Top.changed /\ FileFound(fs, selected_script.file_path)) =>
            RunsExecutor]_vars

\* No manifest is ever rewritten, so the mtime 0 was stored by a tick that
\* saw the dep missing; the file is back, has a reload directive, and a
\* tick's loop is about to visit it.
C21_Witness ==
    /\ world.mut \cap ManifestFiles = {}
    /\ InLoop /\ NextDepsBack
    /\ \E d \in Top.todo : has_reload_directive(selected_script.dep_scripts[d])

\* A tick has passed steps 0-1 and its probe of the manifests finds one
\* missing (and none before it modified) while dep_scripts is not empty.
ManifestGone ==
    /\ TimerFires /\ Armed
    /\ ~trigger_based(selected_script) \/ TrigFired
    /\ IdxProbe.st = "not_found"
    /\ selected_script.dep_scripts # NoDeps
\* The loop of a tick has no dep to visit and has seen none modified.
NoDepWork == InLoop /\ Top.todo = {} /\ ~Top.changed

\* C22: a tick that finds a manifest missing while dep_scripts is not empty
\* empties dep_scripts and goes on, in the same callback, to the probe of
\* the main script with no dep to visit.  While dep_scripts is empty no
\* loop has a dep to visit, so no reload snippet is evaluated, and a tick
\* entered with dep_scripts empty executes the main script if and only if
\* it finds the main script modified.  dep_scripts stays empty until a
\* manifest is parsed again (a re-parse by a tick, or enter).
C22_ManifestGone ==
    /\ [][(TickStep /\ ManifestGone) =>
            /\ selected_script'.dep_scripts = NoDeps
            /\ Len(stack') = Len(stack) + 1
            /\ stack'[Len(stack')].kind = "tick"
            /\ stack'[Len(stack')].pc = "deps"
            /\ stack'[Len(stack')].todo = {}
            /\ ~stack'[Len(stack')].changed
            /\ UNCHANGED <<timer_ret, pending>>]_vars
    /\ []((InLoop /\ selected_script.dep_scripts = NoDeps) => Top.todo = {})
    /\ [][(NoDepWork /\ TickMain /\ FileFound(fs, selected_script.file_path)) =>
            IF MainModified THEN RunsExecutor ELSE RunsNothing]_vars
    /\ [][(selected_script.dep_scripts = NoDeps
           /\ selected_script'.dep_scripts # NoDeps) => Parses]_vars

\* The manifest is gone and a tick has emptied dep_scripts; the former dep
\* has been saved since the start, and a tick comes to the main script with
\* nothing to do for it.
C22_Witness ==
    /\ NoDepWork /\ Top.top
    /\ selected_script.dep_scripts = NoDeps
    /\ selected_script.dep_indices # <<>>
    /\ ~FileFound(fs, Manifest)
    /\ fs[Dep1] # world.fs0[Dep1] /\ FileFound(fs, Dep1)
    /\ ~MainModified

\* The deps a parse records for the dependency line p: p itself if the file
\* exists, and what the lines of its manifest record in turn (n levels).
RECURSIVE ReachedDeps(_, _, _, _)
ReachedDeps(f, mn, p, n) ==
    IF n = 0 \/ ~FileFound(f, p) THEN {}
    ELSE {p} \cup
         (IF ~FileFound(f, DepsName(p)) THEN {}
          ELSE UNION {ReachedDeps(f, mn, ManifestText(mn, DepsName(p))[i].v, n - 1) :
                        i \in {j \in 1..Len(ManifestText(mn, DepsName(p))) :
                                  ManifestText(mn, DepsName(p))[j].k = "dep"}})

\* The parse that has just run, seen from the main script's manifest: the
\* /reload lines above line k, and the last dependency line through which
\* dep d is recorded (0 if none).
ReloadsAbove(k) ==
    LET text == ManifestText(man, DepsName(selected_script'.file_path))
    IN  {j \in 1..(k - 1) : text[j].k = "reload"}
LastLineTo(d) ==
    LET text == ManifestText(man, DepsName(selected_script'.file_path))
        ks   == {k \in 1..Len(text) :
                   /\ text[k].k = "dep"
                   /\ d \in ReachedDeps(fs', man, text[k].v, MaxParseDepth)}
    IN  IF ks = {} THEN 0 ELSE CHOOSE k \in ks : \A j \in ks : j <= k
\* A parse has run to its end on manifests that form no cycle.
Parsed ==
    /\ Parses /\ ~crashed'
    /\ ~ParseExhausts(fs', man, selected_script'.file_path)

\* C23 as amended.  After a parse every recorded dep carries the value of
\* the last /reload line of the main script's manifest above the last
\* dependency line of that manifest through which the dep is recorded
\* (directly or through manifests of deps), and the empty string if there
\* is no such /reload line: its reload_cmd is empty iff there is none or
\* that line has no value.  The loop's visit of a modified dep with an
\* empty reload_cmd evaluates nothing and sets dep_script_changed, and a
\* tick with dep_script_changed set runs the executor on the main script
\* if that file exists.
C23_AmbientReload ==
    /\ [][Parsed =>
            \A d \in DOMAIN selected_script'.dep_scripts :
              LET text == ManifestText(man, DepsName(selected_script'.file_path))
                  k    == LastLineTo(d)
                  rs   == ReloadsAbove(k)
              IN  /\ k # 0
                  /\ selected_script'.dep_scripts[d].reload_cmd =
                        IF rs = {} THEN ""
                        ELSE text[CHOOSE j \in rs : \A i \in rs : i <= j].v]_vars
    /\ [][(TickDep /\ Top.todo # {}
           /\ \A d \in Top.todo :
                /\ FileFound(fs, d) /\ fs[d] # DepTime(d)
                /\ ~has_reload_directive(selected_script.dep_scripts[d])) =>
            /\ Len(stack') = Len(stack)
            /\ stack'[Len(stack)].pc = "deps"
            /\ stack'[Len(stack)].changed
            /\ Cardinality(stack'[Len(stack)].todo) < Cardinality(Top.todo)]_vars
    /\ [][(TickMain /\ Top.changed /\ ~MainModified
           /\ FileFound(fs, selected_script.file_path)) => RunsExecutor]_vars

\* Two deps are recorded, one above the /reload line with no command and
\* one below it with the command, which it also had when first reached
\* through the other's manifest; the one without has been saved and a
\* tick's loop, having visited it, has evaluated nothing.
C23_Witness ==
    /\ InLoop /\ Top.changed /\ Top.todo = {}
    /\ DOMAIN selected_script.dep_scripts = {Dep1, Dep2}
    /\ selected_script.dep_scripts[Dep1].reload_cmd = ""
    /\ selected_script.dep_scripts[Dep2].reload_cmd = ReloadCmd
    /\ fs[Dep2] = selected_script.dep_scripts[Dep2].modified_time
    /\ ~MainModified

\* C23 as stated, its second sentence: a dep's reload_cmd is empty iff no
\* /reload line stands above the line through which it is recorded.
C23_Original ==
    [][Parsed =>
         \A d \in DOMAIN selected_script'.dep_scripts :
            (selected_script'.dep_scripts[d].reload_cmd = "")
               <=> (ReloadsAbove(LastLineTo(d)) = {})]_vars

\* C24: the parse of a manifest that begins with a trimmed line and goes
\* on with the dependency lib1.py.  The line is a /pkgbase, /reload or
\* /triggerfile directive only when the keyword is the whole line or is
\* followed by a space, its value being what follows that space: lib1.py is
\* then recorded with that pkg_base or reload_cmd, or the trigger file is
\* that path.  An empty line or a comment changes nothing.  Any other line
\* is a dependency path: it sets no pkg_base, reload_cmd or trigger file,
\* and is recorded as a dep if the file exists.
C24_Directives ==
    [][(Parsed /\ ManifestContents[man[DepsName(selected_script'.file_path)]][1].k = "raw") =>
        LET str  == ManifestContents[man[DepsName(selected_script'.file_path)]][1].v
            sel  == selected_script'
            Is(key) == \/ str = key
                       \/ /\ Len(str) > Len(key)
                          /\ SubSeq(str, 1, Len(key)) = key
                          /\ str[Len(key) + 1] = " "
            Val(key) == Join(SubSeq(str, Len(key) + 2, Len(str)))
            pkg  == <<"/", "p", "k", "g", "b", "a", "s", "e">>
            rel  == <<"/", "r", "e", "l", "o", "a", "d">>
            trg  == <<"/", "t", "r", "i", "g", "g", "e", "r", "f", "i", "l", "e">>
            keep == <<"/", "t", "r", "i", "g", "g", "e", "r", "f", "i", "l", "e",
                      " ", "/", "k", "e", "e", "p">>
            comment == \/ str = <<>> \/ str[1] \in {"#", ";"}
                       \/ (Len(str) >= 2 /\ str[1] = "/" /\ str[2] = "/")
            isdep == ~comment /\ ~Is(pkg) /\ ~Is(rel) /\ ~Is(trg)
        IN  /\ Dep1 \in DOMAIN sel.dep_scripts
            /\ sel.dep_scripts[Dep1].pkg_base = IF Is(pkg) THEN Val(pkg) ELSE ""
            /\ sel.dep_scripts[Dep1].reload_cmd = IF Is(rel) THEN Val(rel) ELSE ""
            /\ sel.trigger_file.file_path =
                  IF ~Is(trg) THEN NoPath
                  ELSE IF Is(keep) THEN Val(keep) ELSE Val(trg)
            /\ DOMAIN sel.dep_scripts =
                  {Dep1} \cup (IF isdep /\ FileFound(fs', Join(str))
                               THEN {Join(str)} ELSE {})]_vars

\* The match being replaced: what stands before it, between its two $
\* and behind it.
MatchedToken ==
    LET p == CHOOSE i \in 1..Len(Top.rest) :
               /\ Top.rest[i] = "$"
               /\ \E j \in (i + 2)..Len(Top.rest) : Top.rest[j] = "$"
               /\ \A k \in 1..(i - 1) : Top.rest[k] # "$"
        q == CHOOSE j \in (p + 2)..Len(Top.rest) :
               Top.rest[j] = "$" /\ \A k \in (p + 2)..(j - 1) : Top.rest[k] # "$"
    IN  [before |-> SubSeq(Top.rest, 1, p - 1), inner |-> SubSeq(Top.rest, p + 1, q - 1),
         after |-> SubSeq(Top.rest, q + 1, Len(Top.rest))]

\* C25 as amended.  expand_string(s) = s if s holds no $, and also if it
\* holds no two $ with a character between them.  A $token$ whose token
\* begins with none of basename, env:, pkgbase, pkgmodname is replaced by
\* the token's inner text.  What has been put out is not searched again:
\* each replacement is appended to the output and the search goes on in
\* the input behind the match, so that a replacement that holds a $token$
\* stays as it is.
C25_Expand ==
    /\ []((Top.kind = "expand" /\ Top.pc = "done") =>
             (~(\E i, j \in 1..Len(world.s) :
                   j >= i + 2 /\ world.s[i] = "$" /\ world.s[j] = "$")
                => Top.out = world.s))
    /\ [][ExpandMatch =>
            LET m == MatchedToken IN
            /\ stack'[1].rest = m.after
            /\ \E r \in {m.inner, world.pkg_base, Basename(world.script_file),
                          PkgModName(world.script_file, world.pkg_base)}
                          \cup {world.env[i] : i \in 1..Len(world.env)} :
                 stack'[1].out = Top.out \o m.before \o r
            /\ (\A key \in {<<"b", "a", "s", "e", "n", "a", "m", "e">>,
                              <<"e", "n", "v", ":">>,
                              <<"p", "k", "g", "b", "a", "s", "e">>,
                              <<"p", "k", "g", "m", "o", "d", "n", "a", "m", "e">>} :
                   ~BeginsWith(m.inner, key))
                 => stack'[1].out = Top.out \o m.before \o m.inner]_vars
    /\ []((Top.kind = "expand" /\ Top.pc = "done") /\ world.s = <<"$", "e", "n", "v", ":", "X", "$">> /\ world.env # <<>>
             => Top.out = world.env[1])

\* $env:X$ has been expanded to the value of X, which reads $basename$.
C25_Witness ==
    /\ stack # <<>> /\ Top.kind = "expand" /\ Top.pc = "done"
    /\ world.s = <<"$", "e", "n", "v", ":", "X", "$">>
    /\ Top.out = <<"$", "b", "a", "s", "e", "n", "a", "m", "e", "$">>

\* C25 as stated: expand_string(s) = s iff s holds no $, and a $token$
\* whose token is none of basename, env:NAME, pkgbase, pkgmodname is
\* replaced by the token's inner text.
C25_Original ==
    /\ []((Top.kind = "expand" /\ Top.pc = "done") =>
             ((Top.out = world.s) <=> (\A i \in 1..Len(world.s) : world.s[i] # "$")))
    /\ [][ExpandMatch =>
            LET m == MatchedToken IN
            (/\ m.inner \notin {<<"b", "a", "s", "e", "n", "a", "m", "e">>, <<"p", "k", "g", "b", "a", "s", "e">>,
                                <<"p", "k", "g", "m", "o", "d", "n", "a", "m", "e">>}
             /\ ~BeginsWith(m.inner, <<"e", "n", "v", ":">>))
              => stack'[1].out = Top.out \o m.before \o m.inner]_vars

\* C26: after a parse (enter's set_selected_script or a tick's re-parse)
\* the active script has a trigger file iff the main script's manifest, as
\* it is now, has a /triggerfile line, and the keep flag is set iff such a
\* line carries /keep.
C26_TriggerFollowsManifest ==
    [][Parsed =>
         /\ trigger_based(selected_script') <=> (TopLines("trigger") # {})
         /\ selected_script'.b_keep_trigger_file
               <=> (\E l \in TopLines("trigger") : l.keep)]_vars

\* C27: the options dialog, which loads the options from the registry when
\* it opens, leaves the active script as it was: its path, mtime, deps,
\* manifests and trigger file.
C27_LoadKeepsActive ==
    [][ConfigDialog => selected_script' = selected_script]_vars

\* C28: execute_script_at(n) executes the script of row n and no other,
\* with the undoable option off and on, and leaves the active script and
\* the monitor's flag as they were.  Off: execute_script_sync is entered
\* for row n, and the call changes nothing of the active script.  On: the
\* execution is requested; where enter has never run (the registry holds no
\* name, the option has been on all along) every request the host serves
\* is one of execute_script_at, and serving it must run a row's script.
C28_ExecuteScriptAt ==
    /\ [][ExecuteScriptAt =>
            /\ selected_script' = selected_script
            /\ m_b_filemon_timer_active' = m_b_filemon_timer_active
            /\ ~opt_with_undo =>
                 /\ Len(stack') = 1 /\ stack'[1].kind = "exec"
                 /\ stack'[1].target \in 1..Len(m_scripts)]_vars
    /\ [][(stack # <<>> /\ Top.kind = "exec" /\ Top.target # 0
           /\ Len(stack') <= Len(stack) /\ fs' = fs) =>
            selected_script' = selected_script]_vars
    /\ [][(HostRunsAction /\ opt_with_undo /\ world.dialog = {}
           /\ reg_selected = NoPath) =>
            /\ Len(stack') = 1 /\ stack'[1].kind = "exec"
            /\ stack'[1].target \in 1..Len(m_scripts)]_vars

\* C29: while eval_snippet of a dep's reload directive is in flight, a
\* timer callback returns opt_change_interval at step 0: it probes and
\* stores nothing, deletes no file, re-parses nothing, enters no loop and
\* requests no execution.
C29_NoReentryDuringReload ==
    [][(TickStep /\ \E i \in 1..Len(stack) :
                      stack[i].kind = "tick" /\ stack[i].pc = "eval") =>
         /\ stack' = Ticked(stack)
         /\ timer_ret' = opt_change_interval
         /\ UNCHANGED <<fs, selected_script, pending>>]_vars



\* ------------------------------------------------------------- quiescence
\* Scenarios in direct and in trigger mode, with failing reloads and
\* executions, manifests that change, disappear and form a cycle, and the
\* options dialog.
InitQuiet ==
    InitOver({w \in Scenarios \cup ScenariosFull :
                 w.name \in {"plain", "dep", "trigger", "trigger keep",
                             "self cycle", "manifest gone", "child manifest",
                             "options"}})

\* The files change: a write or a removal that is not the monitor's own
\* qunlink of the trigger file.
EnvStep == EnvWrite \/ EnvWriteManifest \/ EnvRemove

\* The user issues a command: an action of the chooser, a run(n), the
\* options dialog.
UserStep ==
    \/ Show \/ Enter \/ Deactivate \/ RunArm \/ RunLast \/ ExecuteScriptAt
    \/ ConfigDialog

\* A step of a timer callback that re-parses the manifests (and returns 1),
\* calls execute_reload_directive, or calls execute_script.
TickWork ==
    \/ TickReparse
    \/ TickDep /\ (Len(stack') < Len(stack) \/ Top'.pc = "eval")
    \/ TickMain /\ (pending' # pending \/ Len(stack') > Len(stack))

\* The host keeps running the timer callback (register_timer re-arms it with
\* the value it returns) and its queued action, and every call that was
\* entered goes on and returns.
SpecQuiet ==
    /\ InitQuiet /\ [][NextFull]_vars
    /\ WF_vars(TickIdle \/ TickNoTrigger \/ TickLoop)
    /\ WF_vars(TickDep \/ EvalFails \/ EvalSucceeds \/ TickMain \/ TickReturn
               \/ ExecBegin \/ UnloadReturn \/ CompileReturn \/ MainReturn
               \/ EnterReturn \/ HostRunsAction)

\* C30: if from some point on no file is written or removed by another
\* process and the user issues no command, then from some point on no timer
\* callback re-parses the manifests, reloads a dep, executes, or returns
\* anything but opt_change_interval.
C30_Quiescence ==
    <>[][~EnvStep /\ ~UserStep]_vars => <>[][~TickWork]_vars

\* The tick after the one whose execution or reload failed has passed the
\* deps and finds the active script as it stored it.
C30_Witness ==
    /\ Len(stack) = 1 /\ Top.kind = "tick" /\ Top.pc = "deps"
    /\ Top.todo = {} /\ ~Top.changed
    /\ Top.prev.o \in {"exec", "reloadfail"} /\ Top.prev.d # NoPath
    /\ get_modification_status(fs, selected_script.file_path,
                               selected_script.modified_time).st = "not_modified"
====
